---- MODULE Spec2Model ----
(***************************************************************************)
(* Lead-Scraper run engine: the start / step / cancel route handlers, the  *)
(* process-wide runState they share, the spreadsheet and the job provider  *)
(* they call.  Every await of a handler is a point where another handler   *)
(* may run; consecutive setCell calls on one settings row are folded into  *)
(* one action (no other handler reads or writes a settings data row), with *)
(* the number of calls that succeed before a failure as the action's input.*)
(* Timestamps are dropped from the status strings.                         *)
(***************************************************************************)
EXTENDS Integers, Sequences, FiniteSets, TLC

\* ---------------------------------------------------------------- bounds
MaxRow == 3        \* the settings tab holds data rows 2..MaxRow
MaxStarts == 2     \* runs created per behaviour (specifications of several runs)
MaxFaults == 1     \* calls to the spreadsheet or the provider that fail, per behaviour
MaxDrainRow == 13  \* last data row of the sheet of the cancel-drain specification
MaxPages == 3      \* full pages of the largest result set a dataset holds
MaxExtraCols == 3  \* columns of the settings header row after the user's three

\* ------------------------------------------------------- program constants
cancelBatch == 10
limit == 1000

Clients == {1, 2}
DataRows == 2..MaxRow

\* ---------------------------------------------------------------- strings
\* String functions of the runtime, tabulated on the strings the model uses
\* (every other string of the model is already trimmed / in the right case).
Trim(s) ==
  CASE s = " y" -> "y"
    [] s = " scraped " -> "scraped"
    [] s = " T " -> "T"
    [] s = " a" -> "a"
    [] s = " Sydney" -> "Sydney"
    [] s = " " -> ""
    [] OTHER -> s

ToLowerCase(s) ==
  CASE s = "Scraped" -> "scraped"
    [] s = "Unique ID" -> "unique id"
    [] s = "UNIQUE ID" -> "unique id"
    [] s = "Apify API Key" -> "apify api key"
    [] s = "Search Location" -> "search location"
    [] s = "Sub-Niches" -> "sub-niches"
    [] s = "Dataset URL" -> "dataset url"
    [] s = "Status" -> "status"
    [] s = "Comments" -> "comments"
    [] s = "Google-Maps Scrape Status" -> "google-maps scrape status"
    [] s = "Google-Maps Push Status" -> "google-maps push status"
    [] s = "Business Name" -> "business name"
    [] s = "Y" -> "y"
    [] s = "N" -> "n"
    [] OTHER -> s

ToUpperCase(s) ==
  CASE s = "y" -> "Y"
    [] s = "n" -> "N"
    [] s = "scraped" -> "SCRAPED"
    [] OTHER -> s

\* ------------------------------------------------------------ spreadsheet
TrackedHeaders ==
  <<"Dataset URL", "Scraped", "Status", "Comments",
    "Google-Maps Scrape Status", "Google-Maps Push Status">>

\* Columns 1..3 of the settings tab are the ones its user maintains.
UserHeaders == <<"Apify API Key", "Search Location", "Sub-Niches">>

NCols == Len(UserHeaders) + 1 + Len(TrackedHeaders)

\* The sheets a run may be started on: the settings header row, the leads tab
\* the client names ("": none), its header row and the rows it already holds.
Configs ==
  { [settings |-> UserHeaders \o <<"Scraped">>, leadsName |-> "",
     leadsHeaders |-> <<>>, leads |-> <<>>],
    [settings |-> UserHeaders \o <<"Scraped">>, leadsName |-> "Leads",
     leadsHeaders |-> <<"Unique ID", "Business Name">>,
     leads |-> << [key |-> "a", cells |-> <<" a", "Acme">>, by |-> 0] >>],
    [settings |-> UserHeaders \o <<" scraped ">>, leadsName |-> "Leads",
     leadsHeaders |-> <<"unique id", "Business Name">>, leads |-> <<>>],
    [settings |-> UserHeaders \o <<"Scraped">>, leadsName |-> "Leads",
     leadsHeaders |-> <<>>, leads |-> <<>>] }

\* Values a user may have typed in the column read as "Scraped".
InitialScraped == {"", " y"}

VARIABLES
  headers,          \* settings tab, row 1
  rows,             \* settings tab, data rows: row -> column -> cell
  leadsName,        \* the leads tab the client names in its start requests
  leadsHeaderRow,   \* leads tab, row 1
  leads,            \* leads tab, data rows in order: the cells, with the
                    \* record's natural key and the run that appended it (0: none)
  cancelRequested,  \* runState.cancelRequested
  activeRunId,      \* runState.activeRunId (0: null)
  activeToken,      \* runState.activeToken ("": null)
  currentRun,       \* runState.currentRun: a reference into runs (0: null)
  runs,             \* the RunProgress objects created so far, by reference
  jobs,             \* provider: the jobs that have not reached a terminal status
  abortCalls,       \* provider: the abort calls received for those jobs
  loc,              \* per client: position and locals of its step request
  resp,             \* per client: the response to its latest start or step
                    \* request (pending while its step request runs)
  pollRef,          \* per client: the run id its page polls step with (0: none)
  cancelResp,       \* the response to the latest cancel request
  cancelPc,         \* position of the cancel request
  budget,           \* external calls that may still fail
  begunAtCancel     \* history: rows of the run begun when the flag was set

vars == <<headers, rows, leadsName, leadsHeaderRow, leads, cancelRequested,
          activeRunId, activeToken, currentRun, runs, jobs, abortCalls, loc,
          resp, pollRef, cancelResp, cancelPc, budget, begunAtCancel>>

sheetVars == <<headers, rows, leadsName, leadsHeaderRow, leads>>
stateVars == <<cancelRequested, activeRunId, activeToken, currentRun>>
providerVars == <<jobs, abortCalls>>
pageVars == <<resp, pollRef>>

\* rowToDict: the entries of the object in insertion order.  A key (a
\* trimmed, non-empty header) is inserted at its first column and ends with
\* the cell of its last column.
RECURSIVE RowToDictFrom(_, _, _)
RowToDictFrom(hs, row, i) ==
  IF i > Len(hs) THEN <<>>
  ELSE IF Trim(hs[i]) = "" \/ \E j \in 1..(i - 1) : Trim(hs[j]) = Trim(hs[i])
    THEN RowToDictFrom(hs, row, i + 1)
  ELSE LET last == CHOOSE j \in i..Len(hs) :
                     /\ Trim(hs[j]) = Trim(hs[i])
                     /\ \A m \in (j + 1)..Len(hs) : Trim(hs[m]) # Trim(hs[i])
       IN << <<Trim(hs[i]), row[last]>> >> \o RowToDictFrom(hs, row, i + 1)

rowToDict(hs, row) == RowToDictFrom(hs, row, 1)

\* row[key] ?? ""
DictGet(d, k) ==
  IF \E i \in 1..Len(d) : d[i][1] = k
    THEN d[CHOOSE i \in 1..Len(d) : d[i][1] = k][2]
    ELSE ""

\* a lookup by the exact key
getExact(d, headerName) ==
  IF \E i \in 1..Len(d) : d[i][1] = headerName
    THEN d[CHOOSE i \in 1..Len(d) : d[i][1] = headerName][2]
    ELSE ""

getFromRowCaseInsensitive(d, headerName) ==
  LET want == ToLowerCase(Trim(headerName))
      hits == {i \in 1..Len(d) : ToLowerCase(Trim(d[i][1])) = want}
  IN IF hits = {} THEN ""
     ELSE d[CHOOSE i \in hits : \A j \in hits : i <= j][2]

\* 0-based index of the first header equal to headerName after trimming, or -1
findHeaderIndex(hs, headerName) ==
  LET hits == {i \in 1..Len(hs) : Trim(hs[i]) = Trim(headerName)}
  IN IF hits = {} THEN -1
     ELSE (CHOOSE i \in hits : \A j \in hits : i <= j) - 1

findHeaderIndexCaseInsensitive(hs, headerName) ==
  LET want == ToLowerCase(Trim(headerName))
      hits == {i \in 1..Len(hs) : ToLowerCase(Trim(hs[i])) = want}
  IN IF hits = {} THEN -1
     ELSE (CHOOSE i \in hits : \A j \in hits : i <= j) - 1

\* an ensureHeader that adds a column whether the header exists or not
ensureHeaderAppending(hs, headerName) ==
  [col |-> Len(hs) + 1, hs |-> Append(hs, headerName)]

\* ensureHeader: the 1-based column of headerName and the header row after it
ensureHeader(hs, headerName) ==
  LET idx0 == findHeaderIndex(hs, headerName)
  IN IF idx0 # -1 THEN [col |-> idx0 + 1, hs |-> hs]
     ELSE [col |-> Len(hs) + 1, hs |-> Append(hs, headerName)]

\* the header row after the first n ensureHeader calls of start
RECURSIVE EnsureFirst(_, _)
EnsureFirst(hs, n) ==
  IF n = 0 THEN hs ELSE ensureHeader(EnsureFirst(hs, n - 1), TrackedHeaders[n]).hs

setCell(rws, r, c, v) == [rws EXCEPT ![r][c] = v]

\* the first k of the setCell calls ws = <<col, value>>, ... on row r
RECURSIVE ApplyWrites(_, _, _, _)
ApplyWrites(rws, r, ws, k) ==
  IF k = 0 THEN rws
  ELSE setCell(ApplyWrites(rws, r, ws, k - 1), r, ws[k][1], ws[k][2])

\* ------------------------------------------------------------------ values
\* a response: the route that sent it and the JSON body
ErrorResp(route, e) ==
  [route |-> route, kind |-> "error", error |-> e, done |-> FALSE, runId |-> 0,
   startRow |-> 0, endRow |-> 0, processed |-> 0, skipped |-> 0, totalLeads |-> 0,
   finishedAt |-> FALSE, perRow |-> <<>>]

OkResp(route) == [ErrorResp(route, "") EXCEPT !.kind = "ok"]

\* no response yet
NoResp == [ErrorResp("none", "") EXCEPT !.kind = "pending"]

\* makeSummary(done): built from the object runState.currentRun refers to
\* (reference cr into the objects rs) at the time of the call
makeSummary(rs, cr, done) ==
  IF cr = 0 THEN [ErrorResp("step", "") EXCEPT !.kind = "null"]
  ELSE [route |-> "step", kind |-> "summary", error |-> "", done |-> done,
        runId |-> rs[cr].runId, startRow |-> rs[cr].startRow, endRow |-> rs[cr].endRow,
        processed |-> rs[cr].processed, skipped |-> rs[cr].skipped,
        totalLeads |-> rs[cr].totalLeads, finishedAt |-> rs[cr].finishedAt,
        perRow |-> rs[cr].perRow]

\* no library function is being called on its own
NoCall == [fn |-> "", arg |-> <<>>, returned |-> FALSE, ret |-> ""]

\* the locals of a step request that is not running
IdleLoc ==
  [pc |-> "idle", run |-> 0, rid |-> 0, row |-> 0, token |-> "", job |-> 0,
   status |-> "", leadRows |-> <<>>, n |-> 0, msg |-> "", datasetUrl |-> "",
   call |-> NoCall]

\* positions of a step request at which a row is being processed
RowPcs == {"getRow", "missingWrites", "runningWrite", "starting", "polling",
           "fetching", "appending", "successWrites", "cancelWrites", "catchWrites"}

\* provider records
ItemA == [placeId |-> " a", title |-> "Acme"]
ItemB == [placeId |-> "b", title |-> "Bolt"]
ItemE == [placeId |-> "", title |-> "NoId"]
ResultSets == { <<ItemA>>, <<ItemB, ItemE, ItemB>> }
TerminalStatuses == {"SUCCEEDED", "FAILED", "ABORTED", "TIMED-OUT"}

\* what a read of a settings row finds in the columns the user maintains
RowInputs ==
  { [tok |-> " T ", loc |-> " Sydney", sub |-> "plumber"],
    [tok |-> "",    loc |-> "Sydney",  sub |-> "plumber"],
    [tok |-> "T",   loc |-> " ",       sub |-> "plumber"],
    [tok |-> "T",   loc |-> "Sydney",  sub |-> ","],
    [tok |-> " ",   loc |-> "",        sub |-> ""] }
EnvTokens == {"", "T"}     \* process.env.APIFY_TOKEN

parseSearchStrings(raw) ==
  CASE raw = "" -> <<>>
    [] raw = "," -> <<>>
    [] OTHER -> <<Trim(raw)>>

buildApifyInputFromRow(d) ==
  [locationQuery |-> Trim(DictGet(d, "Search Location")),
   searchStringsArray |-> parseSearchStrings(DictGet(d, "Sub-Niches"))]

\* an input check that accepts everything
hasRequiredAlways(input) == TRUE

hasRequired(input) == input.locationQuery # "" /\ input.searchStringsArray # <<>>

datasetUrlOf(datasetId, token) ==
  "https://api.apify.com/v2/datasets/" \o datasetId \o "/items?token=" \o token

datasetIdOf(job) == "ds" \o ToString(job)

\* a job id the provider has not in use
NewJobId ==
  LET used == {j.id : j \in jobs} \cup {activeRunId}
  IN CHOOSE i \in 1..(Cardinality(used) + 1) :
       i \notin used /\ \A k \in 1..(i - 1) : k \in used

\* a call to the spreadsheet or the provider may fail while the budget lasts
MayFail(ok) == ok \/ budget > 0
Count(ok) == budget' = IF ok THEN budget ELSE budget - 1

\* the page after it received r: run() polls with the run id of an ok start
\* response; stepRun() stops polling on done and when it throws (a null body)
PageAfter(cur, r) ==
  IF r.kind = "pending" THEN cur
  ELSE IF r.route = "start" THEN (IF r.kind = "summary" THEN r.runId ELSE 0)
  ELSE IF r.kind = "null" \/ (r.kind = "summary" /\ r.done) THEN 0
  ELSE cur

\* the response r is sent to client p
Answer(p, r) ==
  /\ resp' = [resp EXCEPT ![p] = r]
  /\ pollRef' = [pollRef EXCEPT ![p] = PageAfter(@, r)]

\* ---------------------------------------------------------------- initial
\* the state after the module is loaded, on one of the sheets cfgs and with
\* n calls that may fail
InitWith(cfgs, n) ==
  /\ \E cfg \in cfgs :
       /\ headers = cfg.settings
       /\ leadsName = cfg.leadsName
       /\ leadsHeaderRow = cfg.leadsHeaders
       /\ leads = cfg.leads
  /\ \E sc \in [DataRows -> InitialScraped] :
       rows = [r \in DataRows |->
                 [c \in 1..NCols |-> IF c = Len(UserHeaders) + 1 THEN sc[r] ELSE ""]]
  /\ cancelRequested = FALSE
  /\ activeRunId = 0
  /\ activeToken = ""
  /\ currentRun = 0
  /\ runs = <<>>
  /\ jobs = {}
  /\ abortCalls = {}
  /\ loc = [p \in Clients |-> IdleLoc]
  /\ resp = [p \in Clients |-> NoResp]
  /\ pollRef = [p \in Clients |-> 0]
  /\ cancelResp = NoResp
  /\ cancelPc = "idle"
  /\ budget = n
  /\ begunAtCancel = 0

Init == InitWith(Configs, MaxFaults)

\* ------------------------------------------------------------ opening hours
\* Texts whose characters matter are sequences of one-character strings;
\* "NBSP" and "NNBSP" stand for the characters U+00A0 and U+202F.
LowerLetters ==
  <<"a", "b", "c", "d", "e", "f", "g", "h", "i", "j", "k", "l", "m",
    "n", "o", "p", "q", "r", "s", "t", "u", "v", "w", "x", "y", "z">>
UpperLetters ==
  <<"A", "B", "C", "D", "E", "F", "G", "H", "I", "J", "K", "L", "M",
    "N", "O", "P", "Q", "R", "S", "T", "U", "V", "W", "X", "Y", "Z">>
DigitChars == <<"0", "1", "2", "3", "4", "5", "6", "7", "8", "9">>

IndexIn(alphabet, c) ==
  IF \E i \in 1..Len(alphabet) : alphabet[i] = c
    THEN CHOOSE i \in 1..Len(alphabet) : alphabet[i] = c
    ELSE 0

UpperChar(c) == IF IndexIn(LowerLetters, c) # 0 THEN UpperLetters[IndexIn(LowerLetters, c)] ELSE c
LowerChar(c) == IF IndexIn(UpperLetters, c) # 0 THEN LowerLetters[IndexIn(UpperLetters, c)] ELSE c
UpperText(t) == [i \in 1..Len(t) |-> UpperChar(t[i])]
LowerText(t) == [i \in 1..Len(t) |-> LowerChar(t[i])]

IsDigit(c) == IndexIn(DigitChars, c) # 0
\* \s of a regular expression, and what trim() removes
IsSpace(c) == c \in {" ", "NBSP", "NNBSP"}
\* \w of a regular expression
IsWordChar(c) ==
  IndexIn(LowerLetters, c) # 0 \/ IndexIn(UpperLetters, c) # 0 \/ IsDigit(c) \/ c = "_"

\* the string of a text
RECURSIVE Text(_)
Text(t) == IF t = <<>> THEN "" ELSE Head(t) \o Text(Tail(t))

RECURSIVE TrimStart(_)
TrimStart(t) == IF t # <<>> /\ IsSpace(Head(t)) THEN TrimStart(Tail(t)) ELSE t
RECURSIVE TrimEnd(_)
TrimEnd(t) ==
  IF t # <<>> /\ IsSpace(t[Len(t)]) THEN TrimEnd(SubSeq(t, 1, Len(t) - 1)) ELSE t
TrimText(t) == TrimEnd(TrimStart(t))

\* .replace(/\u202f/g, " ").replace(/\u00a0/g, " ").replace(/\s+/g, " ")
RECURSIVE CollapseSpaces(_)
CollapseSpaces(t) ==
  IF t = <<>> THEN <<>>
  ELSE IF IsSpace(Head(t))
    THEN <<" ">> \o CollapseSpaces(TrimStart(t))
  ELSE <<Head(t)>> \o CollapseSpaces(Tail(t))

CleanSpaces(raw) == TrimText(CollapseSpaces(raw))

\* map[cleaned] ?? rawDay.trim()
weekdayOf(cleaned, trimmed) ==
  CASE cleaned \in {"monday", "mon"} -> "Monday"
    [] cleaned \in {"tuesday", "tue", "tues"} -> "Tuesday"
    [] cleaned \in {"wednesday", "wed"} -> "Wednesday"
    [] cleaned \in {"thursday", "thu", "thurs"} -> "Thursday"
    [] cleaned \in {"friday", "fri"} -> "Friday"
    [] cleaned \in {"saturday", "sat"} -> "Saturday"
    [] cleaned \in {"sunday", "sun"} -> "Sunday"
    [] OTHER -> trimmed

normalizeWeekday(rawDay) ==
  weekdayOf(Text(LowerText(TrimText(rawDay))), Text(TrimText(rawDay)))

\* the positions of raw at which /\b(am|pm)\b/i matches
meridiemMatches(raw) ==
  {i \in 1..(Len(raw) - 1) :
     /\ LowerChar(raw[i]) \in {"a", "p"}
     /\ LowerChar(raw[i + 1]) = "m"
     /\ i = 1 \/ ~IsWordChar(raw[i - 1])
     /\ i + 1 = Len(raw) \/ ~IsWordChar(raw[i + 2])}

firstMeridiem(raw, hits) ==
  IF hits = {} THEN ""
  ELSE UpperChar(raw[CHOOSE h \in hits : \A g \in hits : h <= g]) \o "M"

\* raw.match(/\b(am|pm)\b/i): the first am or pm that stands as a word
getMeridiem(raw) == firstMeridiem(raw, meridiemMatches(raw))

\* Number() of one or two digits, as a string
NumberText(ds) ==
  ToString(IF Len(ds) = 1 THEN IndexIn(DigitChars, ds[1]) - 1
           ELSE 10 * (IndexIn(DigitChars, ds[1]) - 1) + IndexIn(DigitChars, ds[2]) - 1)

\* the return statements of normalizeTime
formatTime(hour, minute, meridiem) ==
  IF meridiem = "" THEN hour \o ":" \o minute \o " AM"
  ELSE IF minute = "00" THEN hour \o " " \o meridiem
  ELSE hour \o ":" \o minute \o " " \o meridiem

\* cleaned.match(/^(\d{1,2})(?::(\d{2}))?\s*(AM|PM)?$/), group by group: the
\* digits of the hour, the minute, and what follows up to the end
matchMeridiem(raw, hourDigits, minute, rest, fallbackMeridiem) ==
  IF hourDigits = <<>> \/ rest \notin {<<>>, <<"A", "M">>, <<"P", "M">>}
    THEN Text(TrimText(raw))
    ELSE formatTime(NumberText(hourDigits), minute,
                    IF rest = <<>> THEN fallbackMeridiem ELSE Text(rest))

matchMinute(raw, hourDigits, afterHour, fallbackMeridiem) ==
  IF /\ Len(afterHour) >= 3
     /\ afterHour[1] = ":"
     /\ IsDigit(afterHour[2])
     /\ IsDigit(afterHour[3])
    THEN matchMeridiem(raw, hourDigits, afterHour[2] \o afterHour[3],
                       TrimStart(SubSeq(afterHour, 4, Len(afterHour))), fallbackMeridiem)
    ELSE matchMeridiem(raw, hourDigits, "00", TrimStart(afterHour), fallbackMeridiem)

matchHour(raw, cleaned, fallbackMeridiem) ==
  IF Len(cleaned) >= 2 /\ IsDigit(cleaned[1]) /\ IsDigit(cleaned[2])
    THEN matchMinute(raw, SubSeq(cleaned, 1, 2), SubSeq(cleaned, 3, Len(cleaned)), fallbackMeridiem)
  ELSE IF Len(cleaned) >= 1 /\ IsDigit(cleaned[1])
    THEN matchMinute(raw, SubSeq(cleaned, 1, 1), SubSeq(cleaned, 2, Len(cleaned)), fallbackMeridiem)
  ELSE matchMinute(raw, <<>>, cleaned, fallbackMeridiem)

normalizeTime(raw, fallbackMeridiem) ==
  matchHour(raw, UpperText(CleanSpaces(raw)), fallbackMeridiem)

\* t.split(","): the pieces between the commas
RECURSIVE SplitComma(_, _)
SplitComma(t, piece) ==
  IF t = <<>> THEN <<piece>>
  ELSE IF Head(t) = "," THEN <<piece>> \o SplitComma(Tail(t), <<>>)
  ELSE SplitComma(Tail(t), Append(piece, Head(t)))

\* the length of the match of \s+to\s+ at the head of t, where u is t without
\* its leading white space and v what follows the first two characters of u
toMatchLength(t, u, v) ==
  IF /\ Len(t) > Len(u)
     /\ Len(u) >= 2
     /\ LowerChar(u[1]) = "t"
     /\ LowerChar(u[2]) = "o"
     /\ Len(v) > Len(TrimStart(v))
    THEN (Len(t) - Len(u)) + 2 + (Len(v) - Len(TrimStart(v)))
    ELSE 0

toMatchAfter(t, u) == toMatchLength(t, u, SubSeq(u, 3, Len(u)))

\* /\s+to\s+/i matches at the head of t: the length of the match, or 0
ToMatch(t) == toMatchAfter(t, TrimStart(t))

\* range.split(/\s+to\s+/i)
RECURSIVE SplitTo(_, _)
splitToAt(t, piece, n) ==
  IF n > 0 THEN <<piece>> \o SplitTo(SubSeq(t, n + 1, Len(t)), <<>>)
  ELSE SplitTo(Tail(t), Append(piece, Head(t)))

SplitTo(t, piece) == IF t = <<>> THEN <<piece>> ELSE splitToAt(t, piece, ToMatch(t))

\* strings joined with a separator, the empty ones left out (.filter(Boolean))
RECURSIVE JoinNonEmpty(_, _)
joinTo(s, sep, rest) ==
  IF s = "" THEN rest ELSE IF rest = "" THEN s ELSE s \o sep \o rest

JoinNonEmpty(ss, sep) ==
  IF ss = <<>> THEN "" ELSE joinTo(Head(ss), sep, JoinNonEmpty(Tail(ss), sep))

\* `${start} to ${end}` of a range with the two parts startRaw and endRaw
formatStartEnd(startRaw, endRaw) ==
  normalizeTime(startRaw, getMeridiem(endRaw)) \o " to " \o normalizeTime(endRaw, "")

formatParts(range, parts) ==
  IF Len(parts) # 2 THEN normalizeTime(range, "")
  ELSE formatStartEnd(TrimText(parts[1]), TrimText(parts[2]))

\* the callback of ranges.map
formatRange(range) == formatParts(range, SplitTo(range, <<>>))

formatPiece(piece) == IF piece = <<>> THEN "" ELSE formatRange(piece)

formatRanges(cleaned, pieces) ==
  IF cleaned = <<>> THEN ""
  ELSE IF LowerText(cleaned) = <<"c", "l", "o", "s", "e", "d">> THEN "Closed"
  ELSE JoinNonEmpty([i \in 1..Len(pieces) |-> formatPiece(TrimText(pieces[i]))], ", ")

formatCleaned(cleaned) == formatRanges(cleaned, SplitComma(cleaned, <<>>))

normalizeHoursRanges(rawHours) == formatCleaned(CleanSpaces(rawHours))

\* `${day} - ${hours || "Closed"}`
formatDay(day, hours) == day \o " - " \o (IF hours = "" THEN "Closed" ELSE hours)

\* toOpeningHoursText of an item whose openingHours is an array of objects
\* with a day and hours
toOpeningHoursText(item) ==
  JoinNonEmpty([i \in 1..Len(item.openingHours) |->
                  formatDay(normalizeWeekday(item.openingHours[i].day),
                            normalizeHoursRanges(item.openingHours[i].hours))],
               "\n")

\* ------------------------------------------------------------------ start
\* the "Unique ID" column of the leads tab, as start loads it
LoadUniqueIds(lh, lds) ==
  LET uniqueIdIdx == findHeaderIndexCaseInsensitive(lh, "Unique ID")
  IN IF uniqueIdIdx = -1 THEN {}
     ELSE {Trim(lds[i].cells[uniqueIdIdx + 1]) : i \in 1..Len(lds)} \ {""}

\* a run object that starts behind its first row
NewRunResumed(runId, hs, lh, name, startRow, endRow, ids) ==
  [runId |-> runId,
   leadsSheetName |-> name,
   startRow |-> startRow,
   endRow |-> endRow,
   rowNumbers |-> [i \in 1..(endRow - startRow + 1) |-> startRow + i - 1],
   currentIndex |-> 1,
   processed |-> 0,
   skipped |-> 0,
   totalLeads |-> 0,
   finishedAt |-> FALSE,
   perRow |-> <<>>,
   headersAfterEnsure |-> hs,
   leadsHeaders |-> lh,
   existingUniqueIds |-> ids,
   datasetCol |-> ensureHeader(hs, TrackedHeaders[1]).col,
   scrapedCol |-> ensureHeader(hs, TrackedHeaders[2]).col,
   statusCol |-> ensureHeader(hs, TrackedHeaders[3]).col,
   commentsCol |-> ensureHeader(hs, TrackedHeaders[4]).col,
   scrapeStatusCol |-> ensureHeader(hs, TrackedHeaders[5]).col,
   pushStatusCol |-> ensureHeader(hs, TrackedHeaders[6]).col,
   apifyTokenHeader |-> "Apify API Key"]

NewRun(runId, hs, lh, name, startRow, endRow, ids) ==
  [runId |-> runId,
   leadsSheetName |-> name,
   startRow |-> startRow,
   endRow |-> endRow,
   rowNumbers |-> [i \in 1..(endRow - startRow + 1) |-> startRow + i - 1],
   currentIndex |-> 0,
   processed |-> 0,
   skipped |-> 0,
   totalLeads |-> 0,
   finishedAt |-> FALSE,
   perRow |-> <<>>,
   headersAfterEnsure |-> hs,
   leadsHeaders |-> lh,
   existingUniqueIds |-> ids,
   datasetCol |-> ensureHeader(hs, TrackedHeaders[1]).col,
   scrapedCol |-> ensureHeader(hs, TrackedHeaders[2]).col,
   statusCol |-> ensureHeader(hs, TrackedHeaders[3]).col,
   commentsCol |-> ensureHeader(hs, TrackedHeaders[4]).col,
   scrapeStatusCol |-> ensureHeader(hs, TrackedHeaders[5]).col,
   pushStatusCol |-> ensureHeader(hs, TrackedHeaders[6]).col,
   apifyTokenHeader |-> "Apify API Key"]

\* an object no reference reaches any more (history: whether it had finished
\* is kept with it)
Dropped == NewRun(0, <<>>, <<>>, "", 2, 2, {})

\* a start that clears the cancellation flag before it checks the credentials
StartResetting(p, authorized, startRaw, endRaw, nOk, fails) ==
  /\ UNCHANGED <<rows, leadsName, leadsHeaderRow, leads, providerVars, loc,
                 cancelResp, cancelPc>>
  /\ IF ~authorized
       THEN /\ Answer(p, ErrorResp("start", "not_authorized"))
            /\ cancelRequested' = FALSE
            /\ UNCHANGED <<headers, activeRunId, activeToken, currentRun, runs,
                           budget, begunAtCancel>>
     ELSE IF fails
       THEN /\ MayFail(FALSE)
            /\ Count(FALSE)
            /\ headers' = EnsureFirst(headers, nOk)
            /\ Answer(p, ErrorResp("start", "server_error"))
            /\ UNCHANGED <<stateVars, runs, begunAtCancel>>
     ELSE
       LET startRow == IF startRaw < 2 THEN 2 ELSE startRaw
           endRow == IF endRaw < startRow THEN startRow ELSE endRaw
           hs == EnsureFirst(headers, Len(TrackedHeaders))
           lh == IF leadsName # "" THEN leadsHeaderRow ELSE <<>>
           ids == IF leadsName # "" THEN LoadUniqueIds(lh, leads) ELSE {}
           runId == Len(runs) + 1
           kept == [i \in 1..Len(runs) |->
                      IF \E q \in Clients : loc[q].run = i THEN runs[i]
                      ELSE [Dropped EXCEPT !.finishedAt = runs[i].finishedAt]]
           rs == Append(kept, NewRun(runId, hs, lh, leadsName, startRow, endRow, ids))
       IN /\ nOk = Len(TrackedHeaders)
          /\ headers' = hs
          /\ UNCHANGED budget
          /\ IF leadsName # "" /\ Len(lh) = 0
               THEN /\ Answer(p, ErrorResp("start", "missing_leads_headers"))
                    /\ UNCHANGED <<stateVars, runs, begunAtCancel>>
               ELSE /\ cancelRequested' = FALSE
                    /\ activeRunId' = 0
                    /\ activeToken' = ""
                    /\ runs' = rs
                    /\ currentRun' = runId
                    /\ begunAtCancel' = 0
                    /\ Answer(p, [makeSummary(rs, runId, FALSE) EXCEPT !.route = "start"])

\* POST /api/run/start.  nOk: the ensureHeader calls that complete; fails: a
\* spreadsheet call throws after them (the handler answers server_error).
Start(p, authorized, startRaw, endRaw, nOk, fails) ==
  /\ UNCHANGED <<rows, leadsName, leadsHeaderRow, leads, providerVars, loc,
                 cancelResp, cancelPc>>
  /\ IF ~authorized
       THEN /\ Answer(p, ErrorResp("start", "not_authorized"))
            /\ UNCHANGED <<headers, stateVars, runs, budget, begunAtCancel>>
     ELSE IF fails
       THEN /\ MayFail(FALSE)
            /\ Count(FALSE)
            /\ headers' = EnsureFirst(headers, nOk)
            /\ Answer(p, ErrorResp("start", "server_error"))
            /\ UNCHANGED <<stateVars, runs, begunAtCancel>>
     ELSE
       LET startRow == IF startRaw < 2 THEN 2 ELSE startRaw
           endRow == IF endRaw < startRow THEN startRow ELSE endRaw
           hs == EnsureFirst(headers, Len(TrackedHeaders))
           lh == IF leadsName # "" THEN leadsHeaderRow ELSE <<>>
           ids == IF leadsName # "" THEN LoadUniqueIds(lh, leads) ELSE {}
           runId == Len(runs) + 1
           kept == [i \in 1..Len(runs) |->
                      IF \E q \in Clients : loc[q].run = i THEN runs[i]
                      ELSE [Dropped EXCEPT !.finishedAt = runs[i].finishedAt]]
           rs == Append(kept, NewRun(runId, hs, lh, leadsName, startRow, endRow, ids))
       IN /\ nOk = Len(TrackedHeaders)
          /\ headers' = hs
          /\ UNCHANGED budget
          /\ IF leadsName # "" /\ Len(lh) = 0
               THEN /\ Answer(p, ErrorResp("start", "missing_leads_headers"))
                    /\ UNCHANGED <<stateVars, runs, begunAtCancel>>
               ELSE /\ cancelRequested' = FALSE
                    /\ activeRunId' = 0
                    /\ activeToken' = ""
                    /\ runs' = rs
                    /\ currentRun' = runId
                    /\ begunAtCancel' = 0
                    /\ Answer(p, [makeSummary(rs, runId, FALSE) EXCEPT !.route = "start"])

\* ----------------------------------------------------------------- cancel
\* the rows of the active run that have an outcome or are being processed
RowsBegun ==
  IF currentRun = 0 THEN 0
  ELSE runs[currentRun].currentIndex
       + (IF \E p \in Clients : loc[p].run = currentRun /\ loc[p].pc \in RowPcs
            THEN 1 ELSE 0)

\* POST /api/run/cancel, up to its await: the flag is set and, when a job id
\* and token are recorded, the abort request is sent.
CancelPost ==
  /\ cancelPc = "idle"
  /\ cancelRequested' = TRUE
  /\ begunAtCancel' = IF cancelRequested THEN begunAtCancel ELSE RowsBegun
  /\ IF activeRunId # 0 /\ activeToken # ""
       THEN /\ abortCalls' = IF \E j \in jobs : j.id = activeRunId
                               THEN abortCalls \cup {<<activeRunId, activeToken>>}
                               ELSE abortCalls
            /\ cancelPc' = "aborting"
            /\ cancelResp' = NoResp
       ELSE /\ cancelResp' = OkResp("cancel")
            /\ UNCHANGED <<abortCalls, cancelPc>>
  /\ UNCHANGED <<sheetVars, activeRunId, activeToken, currentRun, runs, jobs,
                 loc, pageVars, budget>>

\* the abort call returns (ok) or its fetch rejects (~ok)
CancelAbortReturn(ok) ==
  /\ cancelPc = "aborting"
  /\ MayFail(ok)
  /\ Count(ok)
  /\ cancelPc' = "idle"
  /\ cancelResp' = IF ok THEN OkResp("cancel") ELSE ErrorResp("cancel", "server_error")
  /\ UNCHANGED <<sheetVars, stateVars, runs, providerVars, loc, pageVars, begunAtCancel>>

\* ------------------------------------------------------------------- step
Run(l) == runs[l.run]
RowCount(run) == Len(run.rowNumbers)

Entry(row, status, message, url, n) ==
  [row |-> row, status |-> status, message |-> message, datasetUrl |-> url, leads |-> n]

\* a log that leaves out the rows that were skipped
pushDroppingSkipped(rs, id, e) ==
  IF e.status = "skipped" THEN rs ELSE [rs EXCEPT ![id].perRow = Append(@, e)]

\* run.perRow.push(e)
push(rs, id, e) == [rs EXCEPT ![id].perRow = Append(@, e)]

CancelledWrites(run) ==
  << <<run.scrapeStatusCol, "FAILED">>,
     <<run.commentsCol, "Cancelled by user.">>,
     <<run.statusCol, "Failed">>,
     <<run.scrapedCol, "N">>,
     <<run.pushStatusCol, "0 leads scraped - CANCELLED">> >>

MissingWritesOf(run, reason) ==
  << <<run.scrapeStatusCol, "FAILED">>,
     <<run.commentsCol, reason>>,
     <<run.statusCol, "Failed">>,
     <<run.scrapedCol, "N">>,
     <<run.pushStatusCol, "0 leads scraped - SKIPPED - " \o reason>> >>

FailureWrites(run, msg) ==
  << <<run.scrapeStatusCol, "FAILED">>,
     <<run.commentsCol, msg>>,
     <<run.statusCol, "Failed">>,
     <<run.scrapedCol, "N">>,
     <<run.pushStatusCol, "0 leads scraped - " \o msg>> >>

\* success writes that mark the row Scraped = Y first
SuccessWritesScrapedFirst(run, url, n) ==
  << <<run.scrapedCol, "Y">>,
     <<run.datasetCol, url>>,
     <<run.scrapeStatusCol, "COMPLETED">>,
     <<run.commentsCol, "">>,
     <<run.statusCol, "Completed">>,
     <<run.pushStatusCol, ToString(n) \o " leads scraped">> >>

SuccessWritesOf(run, url, n) ==
  << <<run.datasetCol, url>>,
     <<run.scrapeStatusCol, "COMPLETED">>,
     <<run.commentsCol, "">>,
     <<run.statusCol, "Completed">>,
     <<run.pushStatusCol, ToString(n) \o " leads scraped">>,
     <<run.scrapedCol, "Y">> >>

\* the request of client p goes on with locals l
Goto(p, l) == loc' = [loc EXCEPT ![p] = l] /\ UNCHANGED pageVars

\* the handler returns resp
Respond(p, r) == loc' = [loc EXCEPT ![p] = IdleLoc] /\ Answer(p, r)

\* the outer catch of the step handler
ServerError(p) == Respond(p, ErrorResp("step", "server_error"))

\* the catch of the per-row try: the constants of the try block are out of
\* scope, the first setCell of the catch is awaited
EnterCatch(p, l, msg) ==
  Goto(p, [IdleLoc EXCEPT !.pc = "catchWrites", !.run = l.run, !.row = l.row,
                          !.msg = msg])

\* return NextResponse.json(makeSummary(false)) after the cursor moved
\* a return that leaves the cursor where it is
ReturnNotDoneStaying(p, l, rs) ==
  /\ runs' = rs
  /\ Respond(p, makeSummary(rs, currentRun, FALSE))
  /\ UNCHANGED currentRun

ReturnNotDone(p, l, rs) ==
  LET rs2 == [rs EXCEPT ![l.run].currentIndex = @ + 1]
  IN /\ runs' = rs2
     /\ Respond(p, makeSummary(rs2, currentRun, FALSE))
     /\ UNCHANGED currentRun

\* a done handling that leaves the run in runState
FinishKeeping(p, l, rs) ==
  LET done == rs[l.run].currentIndex >= RowCount(rs[l.run])
      rs2 == IF done THEN [rs EXCEPT ![l.run].finishedAt = TRUE] ELSE rs
  IN /\ runs' = rs2
     /\ Respond(p, makeSummary(rs2, currentRun, done))
     /\ UNCHANGED currentRun

\* the done handling that ends a step: finishedAt, the summary, the clearing
Finish(p, l, rs) ==
  LET done == rs[l.run].currentIndex >= RowCount(rs[l.run])
      rs2 == IF done THEN [rs EXCEPT ![l.run].finishedAt = TRUE] ELSE rs
  IN /\ runs' = rs2
     /\ Respond(p, makeSummary(rs2, currentRun, done))
     /\ currentRun' = IF done THEN 0 ELSE currentRun

\* a drain loop without the batch limit
DrainLoopUnbounded(p, l, rs) ==
  LET run == rs[l.run]
  IN IF run.currentIndex < RowCount(run)
       THEN /\ runs' = [rs EXCEPT ![l.run].skipped = @ + 1]
            /\ Goto(p, [l EXCEPT !.pc = "drain", !.rid = 0,
                                 !.row = run.rowNumbers[run.currentIndex + 1]])
            /\ UNCHANGED currentRun
       ELSE Finish(p, l, rs)

\* the head of the cancel-drain loop, reached with locals l and objects rs
DrainLoop(p, l, rs) ==
  LET run == rs[l.run]
  IN IF run.currentIndex < RowCount(run) /\ l.n < cancelBatch
       THEN /\ runs' = [rs EXCEPT ![l.run].skipped = @ + 1]
            /\ Goto(p, [l EXCEPT !.pc = "drain", !.rid = 0,
                                 !.row = run.rowNumbers[run.currentIndex + 1]])
            /\ UNCHANGED currentRun
       ELSE Finish(p, l, rs)

\* a handler that forgets the recorded job when it finds no run
StepBeginForgetting(p, authorized, rid) ==
  /\ loc[p].pc = "idle"
  /\ UNCHANGED <<sheetVars, cancelRequested, currentRun, runs, providerVars, cancelResp,
                 cancelPc, budget, begunAtCancel>>
  /\ IF ~authorized
       THEN Respond(p, ErrorResp("step", "not_authorized"))
            /\ UNCHANGED <<activeRunId, activeToken>>
     ELSE IF currentRun = 0
       THEN /\ Respond(p, ErrorResp("step", "no_active_run"))
            /\ activeRunId' = 0
            /\ activeToken' = ""
     ELSE /\ loc' = [loc EXCEPT ![p] = [IdleLoc EXCEPT !.pc = "parsed",
                                                       !.run = currentRun, !.rid = rid]]
          /\ Answer(p, NoResp)
          /\ UNCHANGED <<activeRunId, activeToken>>

\* POST /api/run/step up to the await of req.json()
\* a handler that refuses a step request while another one is running
StepBeginSingleFlight(p, authorized, rid) ==
  /\ loc[p].pc = "idle"
  /\ UNCHANGED <<sheetVars, stateVars, runs, providerVars, cancelResp, cancelPc,
                 budget, begunAtCancel>>
  /\ IF ~authorized THEN Respond(p, ErrorResp("step", "not_authorized"))
     ELSE IF currentRun = 0 THEN Respond(p, ErrorResp("step", "no_active_run"))
     ELSE IF \E q \in Clients : loc[q].pc # "idle"
       THEN Respond(p, ErrorResp("step", "busy"))
     ELSE /\ loc' = [loc EXCEPT ![p] = [IdleLoc EXCEPT !.pc = "parsed",
                                                       !.run = currentRun, !.rid = rid]]
          /\ Answer(p, NoResp)

StepBegin(p, authorized, rid) ==
  /\ loc[p].pc = "idle"
  /\ UNCHANGED <<sheetVars, stateVars, runs, providerVars, cancelResp, cancelPc,
                 budget, begunAtCancel>>
  /\ IF ~authorized THEN Respond(p, ErrorResp("step", "not_authorized"))
     ELSE IF currentRun = 0 THEN Respond(p, ErrorResp("step", "no_active_run"))
     ELSE /\ loc' = [loc EXCEPT ![p] = [IdleLoc EXCEPT !.pc = "parsed",
                                                       !.run = currentRun, !.rid = rid]]
          /\ Answer(p, NoResp)

\* a dispatch that never looks at the cancellation flag
StepDispatchNoCancelCheck(p) ==
  LET l == loc[p]
      run == Run(l)
  IN /\ l.pc = "parsed"
     /\ UNCHANGED <<sheetVars, cancelRequested, activeRunId, activeToken,
                    providerVars, cancelResp, cancelPc, budget, begunAtCancel>>
     /\ IF l.rid # 0 /\ l.rid # run.runId
          THEN Respond(p, ErrorResp("step", "run_mismatch")) /\ UNCHANGED <<runs, currentRun>>
        ELSE IF run.currentIndex >= RowCount(run)
          THEN LET rs == [runs EXCEPT ![l.run].finishedAt = TRUE]
               IN /\ runs' = rs
                  /\ Respond(p, makeSummary(rs, currentRun, TRUE))
                  /\ currentRun' = 0
        ELSE /\ Goto(p, [l EXCEPT !.pc = "getRow", !.rid = 0,
                                  !.row = run.rowNumbers[run.currentIndex + 1]])
             /\ UNCHANGED <<runs, currentRun>>

\* a dispatch that accepts every run id
StepDispatchAnyId(p) ==
  LET l == loc[p]
      run == Run(l)
  IN /\ l.pc = "parsed"
     /\ UNCHANGED <<sheetVars, cancelRequested, activeRunId, activeToken,
                    providerVars, cancelResp, cancelPc, budget, begunAtCancel>>
     /\ IF cancelRequested
          THEN DrainLoop(p, l, runs)
        ELSE IF run.currentIndex >= RowCount(run)
          THEN LET rs == [runs EXCEPT ![l.run].finishedAt = TRUE]
               IN /\ runs' = rs
                  /\ Respond(p, makeSummary(rs, currentRun, TRUE))
                  /\ currentRun' = 0
        ELSE /\ Goto(p, [l EXCEPT !.pc = "getRow", !.rid = 0,
                                  !.row = run.rowNumbers[run.currentIndex + 1]])
             /\ UNCHANGED <<runs, currentRun>>

\* the run id check, the cancellation check and the end-of-range check
StepDispatch(p) ==
  LET l == loc[p]
      run == Run(l)
  IN /\ l.pc = "parsed"
     /\ UNCHANGED <<sheetVars, cancelRequested, activeRunId, activeToken,
                    providerVars, cancelResp, cancelPc, budget, begunAtCancel>>
     /\ IF l.rid # 0 /\ l.rid # run.runId
          THEN Respond(p, ErrorResp("step", "run_mismatch")) /\ UNCHANGED <<runs, currentRun>>
        ELSE IF cancelRequested
          THEN DrainLoop(p, l, runs)
        ELSE IF run.currentIndex >= RowCount(run)
          THEN LET rs == [runs EXCEPT ![l.run].finishedAt = TRUE]
               IN /\ runs' = rs
                  /\ Respond(p, makeSummary(rs, currentRun, TRUE))
                  /\ currentRun' = 0
        ELSE /\ Goto(p, [l EXCEPT !.pc = "getRow", !.rid = 0,
                                  !.row = run.rowNumbers[run.currentIndex + 1]])
             /\ UNCHANGED <<runs, currentRun>>

\* one pass of the cancel-drain loop: k of its five setCell calls succeed
DrainRow(p, k) ==
  LET l == loc[p]
      run == Run(l)
      ws == CancelledWrites(run)
  IN /\ l.pc = "drain"
     /\ k \in 0..Len(ws)
     /\ MayFail(k = Len(ws))
     /\ Count(k = Len(ws))
     /\ rows' = ApplyWrites(rows, l.row, ws, k)
     /\ UNCHANGED <<headers, leadsName, leadsHeaderRow, leads, cancelRequested,
                    activeRunId, activeToken, providerVars, cancelResp, cancelPc, begunAtCancel>>
     /\ IF k < Len(ws)
          THEN ServerError(p) /\ UNCHANGED <<runs, currentRun>>
          ELSE LET rs1 == push(runs, l.run, Entry(l.row, "skipped", "Cancelled by user.", "", 0))
                   rs2 == [rs1 EXCEPT ![l.run].currentIndex = @ + 1]
               IN DrainLoop(p, [l EXCEPT !.n = @ + 1], rs2)

\* getRow returns (ok, with inp in the user's columns) or throws
GetRowReturn(p, ok, inp, envToken) ==
  LET l == loc[p]
      run == Run(l)
      rowValues == [c \in 1..NCols |->
                      IF c = 1 THEN inp.tok ELSE IF c = 2 THEN inp.loc
                      ELSE IF c = 3 THEN inp.sub ELSE rows[l.row][c]]
  IN /\ l.pc = "getRow"
     /\ MayFail(ok)
     /\ Count(ok)
     /\ UNCHANGED <<sheetVars, stateVars, providerVars, cancelResp, cancelPc, begunAtCancel>>
     /\ IF ~ok THEN ServerError(p) /\ UNCHANGED runs
        ELSE \E rowDict \in {rowToDict(run.headersAfterEnsure, rowValues)} :
          LET scrapedVal == ToUpperCase(Trim(getFromRowCaseInsensitive(rowDict, "Scraped")))
              cellToken == Trim(getFromRowCaseInsensitive(rowDict, run.apifyTokenHeader))
              apifyToken == IF cellToken # "" THEN cellToken ELSE Trim(envToken)
              input == buildApifyInputFromRow(rowDict)
              reason == IF apifyToken = ""
                          THEN "Missing Apify token in '" \o run.apifyTokenHeader \o "'."
                          ELSE "Missing 'Search Location' or 'Sub-Niches'."
          IN IF scrapedVal = "Y"
               THEN ReturnNotDone(p, l,
                      push([runs EXCEPT ![l.run].skipped = @ + 1], l.run,
                           Entry(l.row, "skipped", "Already completed (Scraped = Y).", "", 0)))
             ELSE IF apifyToken = "" \/ ~hasRequired(input)
               THEN /\ runs' = [runs EXCEPT ![l.run].skipped = @ + 1]
                    /\ Goto(p, [l EXCEPT !.pc = "missingWrites", !.msg = reason])
             ELSE /\ runs' = [runs EXCEPT ![l.run].processed = @ + 1]
                  /\ Goto(p, [l EXCEPT !.pc = "runningWrite", !.token = apifyToken])

\* the five setCell calls of the missing-precondition branch
MissingWrites(p, k) ==
  LET l == loc[p]
      run == Run(l)
      ws == MissingWritesOf(run, l.msg)
  IN /\ l.pc = "missingWrites"
     /\ k \in 0..Len(ws)
     /\ MayFail(k = Len(ws))
     /\ Count(k = Len(ws))
     /\ rows' = ApplyWrites(rows, l.row, ws, k)
     /\ UNCHANGED <<headers, leadsName, leadsHeaderRow, leads, stateVars,
                    providerVars, cancelResp, cancelPc, begunAtCancel>>
     /\ IF k < Len(ws)
          THEN ServerError(p) /\ UNCHANGED runs
          ELSE ReturnNotDone(p, l, push(runs, l.run, Entry(l.row, "skipped", l.msg, "", 0)))

\* the RUNNING write; when it succeeds startActorRun sends its request, and
\* the provider creates the job (created) or refuses
RunningWrite(p, ok, created) ==
  LET l == loc[p]
      run == Run(l)
  IN /\ l.pc = "runningWrite"
     /\ MayFail(ok /\ created)
     /\ Count(ok /\ created)
     /\ UNCHANGED <<headers, leadsName, leadsHeaderRow, leads, stateVars, runs,
                    abortCalls, cancelResp, cancelPc, begunAtCancel>>
     /\ IF ~ok
          THEN /\ created
               /\ EnterCatch(p, l, "sheet write failed")
               /\ UNCHANGED <<rows, jobs>>
          ELSE /\ rows' = setCell(rows, l.row, run.scrapeStatusCol, "RUNNING")
               /\ jobs' = IF created THEN jobs \cup {[id |-> NewJobId, token |-> l.token]}
                                     ELSE jobs
               /\ Goto(p, [l EXCEPT !.pc = "starting",
                                    !.job = IF created THEN NewJobId ELSE 0])

\* startActorRun returns the job (its id and token are recorded and the
\* status poll begins) or throws
StartActorReturn(p) ==
  LET l == loc[p]
  IN /\ l.pc = "starting"
     /\ UNCHANGED <<sheetVars, cancelRequested, currentRun, runs, providerVars,
                    cancelResp, cancelPc, budget, begunAtCancel>>
     /\ IF l.job = 0
          THEN /\ EnterCatch(p, l, "Apify start failed.")
               /\ UNCHANGED <<activeRunId, activeToken>>
          ELSE /\ activeRunId' = l.job
               /\ activeToken' = l.token
               /\ Goto(p, [l EXCEPT !.pc = "polling"])

\* a poll return that looks at the status only
PollReturnIgnoringFlag(p, ok, status, hasDataset) ==
  LET l == loc[p]
  IN /\ l.pc = "polling"
     /\ status \in TerminalStatuses
     /\ (ok /\ (cancelRequested \/ status = "ABORTED")) => hasDataset
     /\ MayFail(ok /\ hasDataset)
     /\ Count(ok /\ hasDataset)
     /\ UNCHANGED <<sheetVars, cancelRequested, currentRun, runs, cancelResp, cancelPc, begunAtCancel>>
     /\ IF ~ok
          THEN /\ hasDataset
               /\ EnterCatch(p, l, "Apify status failed.")
               /\ UNCHANGED <<activeRunId, activeToken, jobs, abortCalls>>
          ELSE /\ jobs' = {j \in jobs : j.id # l.job}
               /\ abortCalls' = {a \in abortCalls : a[1] # l.job}
               /\ activeRunId' = 0
               /\ activeToken' = ""
               /\ IF ToUpperCase(status) = "ABORTED"
                    THEN Goto(p, [l EXCEPT !.pc = "cancelWrites"])
                  ELSE IF ~hasDataset
                    THEN EnterCatch(p, [l EXCEPT !.status = status],
                                    "Apify run did not return defaultDatasetId")
                  ELSE Goto(p, [l EXCEPT !.pc = "fetching", !.status = status,
                                  !.datasetUrl = datasetUrlOf(datasetIdOf(l.job), l.token)])

\* waitForRunToFinish returns a terminal status (with or without a dataset
\* id) or throws on a status response that is not OK
PollReturn(p, ok, status, hasDataset) ==
  LET l == loc[p]
  IN /\ l.pc = "polling"
     /\ status \in TerminalStatuses
     /\ (ok /\ (cancelRequested \/ status = "ABORTED")) => hasDataset
     /\ MayFail(ok /\ hasDataset)
     /\ Count(ok /\ hasDataset)
     /\ UNCHANGED <<sheetVars, cancelRequested, currentRun, runs, cancelResp, cancelPc, begunAtCancel>>
     /\ IF ~ok
          THEN /\ hasDataset
               /\ EnterCatch(p, l, "Apify status failed.")
               /\ UNCHANGED <<activeRunId, activeToken, jobs, abortCalls>>
          ELSE /\ jobs' = {j \in jobs : j.id # l.job}
               /\ abortCalls' = {a \in abortCalls : a[1] # l.job}
               /\ activeRunId' = 0
               /\ activeToken' = ""
               /\ IF cancelRequested \/ ToUpperCase(status) = "ABORTED"
                    THEN Goto(p, [l EXCEPT !.pc = "cancelWrites"])
                  ELSE IF ~hasDataset
                    THEN EnterCatch(p, [l EXCEPT !.status = status],
                                    "Apify run did not return defaultDatasetId")
                  ELSE Goto(p, [l EXCEPT !.pc = "fetching", !.status = status,
                                  !.datasetUrl = datasetUrlOf(datasetIdOf(l.job), l.token)])

\* one record as a leads row of run runId: a cell per leads header
leadRowOf(item, uniqueId, lh, runId) ==
  [key |-> uniqueId,
   by |-> runId,
   cells |-> [i \in 1..Len(lh) |->
                CASE Trim(lh[i]) = "Unique ID" -> uniqueId
                  [] Trim(lh[i]) = "Business Name" -> item.title
                  [] OTHER -> ""]]

\* a mapping that keeps every record
RECURSIVE mapAll(_, _, _, _)
mapAll(items, ids, lh, runId) ==
  IF items = <<>> THEN [rows |-> <<>>, ids |-> ids]
  ELSE LET uniqueId == Trim(Head(items).placeId)
           rest == mapAll(Tail(items), ids \cup ({uniqueId} \ {""}), lh, runId)
       IN [rows |-> <<leadRowOf(Head(items), uniqueId, lh, runId)>> \o rest.rows,
           ids |-> rest.ids]

\* items.map(...).filter(...): the rows kept and the dedup set afterwards
RECURSIVE mapLeads(_, _, _, _)
mapLeads(items, ids, lh, runId) ==
  IF items = <<>> THEN [rows |-> <<>>, ids |-> ids]
  ELSE LET item == Head(items)
           uniqueId == Trim(item.placeId)
       IN IF uniqueId # "" /\ uniqueId \in ids
            THEN mapLeads(Tail(items), ids, lh, runId)
            ELSE LET rest == mapLeads(Tail(items),
                                      IF uniqueId # "" THEN ids \cup {uniqueId} ELSE ids,
                                      lh, runId)
                 IN [rows |-> <<leadRowOf(item, uniqueId, lh, runId)>> \o rest.rows,
                     ids |-> rest.ids]

\* totalLeads is counted and the first setCell of the success writes awaited
ToSuccessWrites(p, l, rs, leadRows) ==
  /\ runs' = [rs EXCEPT ![l.run].totalLeads = @ + Len(leadRows)]
  /\ Goto(p, [l EXCEPT !.pc = "successWrites", !.leadRows = leadRows])

\* getDatasetItems returns the items or throws; the rows are mapped and,
\* when there are any, appendRows sends its request
FetchReturn(p, ok, items) ==
  LET l == loc[p]
      run == Run(l)
      m == mapLeads(items, run.existingUniqueIds, run.leadsHeaders, run.runId)
      rs == [runs EXCEPT ![l.run].existingUniqueIds = m.ids]
  IN /\ l.pc = "fetching"
     /\ items \in ResultSets
     /\ MayFail(ok)
     /\ Count(ok)
     /\ UNCHANGED <<sheetVars, stateVars, providerVars, cancelResp, cancelPc, begunAtCancel>>
     /\ IF ~ok
          THEN EnterCatch(p, l, "Apify dataset items failed.") /\ UNCHANGED runs
        ELSE IF run.leadsSheetName = ""
          THEN ToSuccessWrites(p, l, runs, <<>>)
        ELSE IF m.rows = <<>>
          THEN ToSuccessWrites(p, l, rs, <<>>)
        ELSE /\ runs' = rs
             /\ Goto(p, [l EXCEPT !.pc = "appending", !.leadRows = m.rows])

\* an append whose failure is ignored: the status writes follow either way
AppendReturnIgnoringFailure(p, ok) ==
  LET l == loc[p]
  IN /\ l.pc = "appending"
     /\ MayFail(ok)
     /\ Count(ok)
     /\ UNCHANGED <<headers, rows, leadsName, leadsHeaderRow, stateVars,
                    providerVars, cancelResp, cancelPc, begunAtCancel>>
     /\ leads' = IF ok THEN leads \o l.leadRows ELSE leads
     /\ ToSuccessWrites(p, l, runs, l.leadRows)

\* the append call returns or throws
AppendReturn(p, ok) ==
  LET l == loc[p]
  IN /\ l.pc = "appending"
     /\ MayFail(ok)
     /\ Count(ok)
     /\ UNCHANGED <<headers, rows, leadsName, leadsHeaderRow, stateVars,
                    providerVars, cancelResp, cancelPc, begunAtCancel>>
     /\ IF ~ok
          THEN EnterCatch(p, l, "append failed") /\ UNCHANGED <<leads, runs>>
          ELSE /\ leads' = leads \o l.leadRows
               /\ ToSuccessWrites(p, l, runs, l.leadRows)

\* the six setCell calls of the success path, Scraped = Y last
SuccessWrites(p, k) ==
  LET l == loc[p]
      run == Run(l)
      ws == SuccessWritesOf(run, l.datasetUrl, Len(l.leadRows))
  IN /\ l.pc = "successWrites"
     /\ k \in 0..Len(ws)
     /\ MayFail(k = Len(ws))
     /\ Count(k = Len(ws))
     /\ rows' = ApplyWrites(rows, l.row, ws, k)
     /\ UNCHANGED <<headers, leadsName, leadsHeaderRow, leads, cancelRequested,
                    activeRunId, activeToken, providerVars, cancelResp, cancelPc, begunAtCancel>>
     /\ IF k < Len(ws)
          THEN EnterCatch(p, l, "sheet write failed") /\ UNCHANGED <<runs, currentRun>>
          ELSE LET rs1 == push(runs, l.run,
                               Entry(l.row, "succeeded", "", l.datasetUrl, Len(l.leadRows)))
               IN Finish(p, l, [rs1 EXCEPT ![l.run].currentIndex = @ + 1])

\* the five setCell calls after a poll that ended cancelled or aborted
CancelWrites(p, k) ==
  LET l == loc[p]
      run == Run(l)
      ws == CancelledWrites(run)
  IN /\ l.pc = "cancelWrites"
     /\ k \in 0..Len(ws)
     /\ MayFail(k = Len(ws))
     /\ Count(k = Len(ws))
     /\ rows' = ApplyWrites(rows, l.row, ws, k)
     /\ UNCHANGED <<headers, leadsName, leadsHeaderRow, leads, stateVars,
                    providerVars, cancelResp, cancelPc, begunAtCancel>>
     /\ IF k < Len(ws)
          THEN EnterCatch(p, l, "sheet write failed") /\ UNCHANGED runs
          ELSE ReturnNotDone(p, l,
                 push(runs, l.run, Entry(l.row, "skipped", "Cancelled by user.", "", 0)))

\* the five setCell calls of the catch block
CatchWrites(p, k) ==
  LET l == loc[p]
      run == Run(l)
      ws == FailureWrites(run, l.msg)
  IN /\ l.pc = "catchWrites"
     /\ k \in 0..Len(ws)
     /\ MayFail(k = Len(ws))
     /\ Count(k = Len(ws))
     /\ rows' = ApplyWrites(rows, l.row, ws, k)
     /\ UNCHANGED <<headers, leadsName, leadsHeaderRow, leads, cancelRequested,
                    activeRunId, activeToken, providerVars, cancelResp, cancelPc, begunAtCancel>>
     /\ IF k < Len(ws)
          THEN ServerError(p) /\ UNCHANGED <<runs, currentRun>>
          ELSE LET rs1 == push(runs, l.run, Entry(l.row, "failed", l.msg, "", 0))
               IN Finish(p, l, [rs1 EXCEPT ![l.run].currentIndex = @ + 1])

\* ---------------------------------------------------------- specification
\* of n setCell calls in a row: the last one fails, or none does
WriteCounts(n) == {n - 1, n}

\* the steps of client p's request once it is accepted
StepRun(p) ==
  \/ StepDispatch(p)
  \/ \E k \in WriteCounts(5) : DrainRow(p, k)
  \/ \E ok \in BOOLEAN, inp \in RowInputs, envToken \in EnvTokens :
       GetRowReturn(p, ok, inp, envToken)
  \/ \E k \in WriteCounts(5) : MissingWrites(p, k)
  \/ \E ok \in BOOLEAN, created \in BOOLEAN : RunningWrite(p, ok, created)
  \/ StartActorReturn(p)
  \/ \E ok \in BOOLEAN, status \in TerminalStatuses, hasDataset \in BOOLEAN :
       PollReturn(p, ok, status, hasDataset)
  \/ \E ok \in BOOLEAN, items \in ResultSets : FetchReturn(p, ok, items)
  \/ \E ok \in BOOLEAN : AppendReturn(p, ok)
  \/ \E k \in WriteCounts(6) : SuccessWrites(p, k)
  \/ \E k \in WriteCounts(5) : CancelWrites(p, k)
  \/ \E k \in WriteCounts(5) : CatchWrites(p, k)

NoStepInFlight == \A p \in Clients : loc[p].pc = "idle"

StartRequest(p) ==
  \E authorized \in BOOLEAN, startRaw \in 1..2, endRaw \in 1..MaxRow,
     nOk \in 0..Len(TrackedHeaders), fails \in BOOLEAN :
    Start(p, authorized, startRaw, endRaw, nOk, fails)

\* stepRun() of the page: a tick of the poll timer while no step is in flight
StepRequest(p) ==
  /\ pollRef[p] # 0
  /\ \E authorized \in BOOLEAN : StepBegin(p, authorized, pollRef[p])

\* stopRun() of the page, and the return of the abort call of a cancel request
StopRun(p) == pollRef[p] # 0 /\ CancelPost
CancelReturn == \E ok \in BOOLEAN : CancelAbortReturn(ok)

\* One run, driven by one page: run() once, steps one at a time while it
\* polls, stopRun() at any time while it polls.
Next ==
  \/ runs = <<>> /\ NoStepInFlight /\ StartRequest(1)
  \/ StepRequest(1)
  \/ StepRun(1)
  \/ StopRun(1)
  \/ CancelReturn

Spec == Init /\ [][Next]_vars

\* Several runs, one after the other: the page starts the next one when it
\* has stopped polling.
NextRuns ==
  \/ Len(runs) < MaxStarts /\ NoStepInFlight /\ pollRef[1] = 0 /\ StartRequest(1)
  \/ StepRequest(1)
  \/ StepRun(1)
  \/ StopRun(1)
  \/ CancelReturn

SpecRuns == Init /\ [][NextRuns]_vars

\* One run on the sheets whose leads tab holds rows, with one more call that
\* may fail.
SpecFaults ==
  InitWith({cfg \in Configs : cfg.leads # <<>>}, MaxFaults + 1) /\ [][Next]_vars

\* Any caller of the routes, one request of a kind at a time: a step request
\* with any run id or none (0), at any time; a start request whenever no step
\* request is running, also while a run is active; a cancel request at any time.
StepCall(p) ==
  \E authorized \in BOOLEAN, rid \in 0..MaxStarts : StepBegin(p, authorized, rid)

NextApi ==
  \/ Len(runs) < MaxStarts /\ NoStepInFlight /\ StartRequest(1)
  \/ StepCall(1)
  \/ StepRun(1)
  \/ CancelPost
  \/ CancelReturn

SpecApi ==
  InitWith({cfg \in Configs : cfg.leadsName # "" /\ cfg.settings = UserHeaders \o <<"Scraped">>}, MaxFaults)
    /\ [][NextApi]_vars

\* One run, driven by one page, in which the sheet may reject any one of the
\* writes of the success path.

NextWrites ==
  \/ runs = <<>> /\ NoStepInFlight /\ StartRequest(1)
  \/ StepRequest(1)
  \/ StepRun(1)
  \/ \E k \in 0..Len(TrackedHeaders) : SuccessWrites(1, k)
  \/ StopRun(1)
  \/ CancelReturn

SpecWrites == Init /\ [][NextWrites]_vars

\* One run over all the rows, started by client 1, on which both clients send
\* step requests at any time, also while one is running; every call to the
\* spreadsheet and the provider succeeds and every job ends SUCCEEDED.
NextOverlap ==
  \/ runs = <<>> /\ Start(1, TRUE, 2, MaxRow, Len(TrackedHeaders), FALSE)
  \/ \E p \in Clients : StepBegin(p, TRUE, 0)
  \/ \E p \in Clients : StepDispatch(p)
  \/ \E p \in Clients, inp \in RowInputs : GetRowReturn(p, TRUE, inp, "T")
  \/ \E p \in Clients : MissingWrites(p, 5)
  \/ \E p \in Clients : RunningWrite(p, TRUE, TRUE)
  \/ \E p \in Clients : StartActorReturn(p)
  \/ \E p \in Clients : PollReturn(p, TRUE, "SUCCEEDED", TRUE)
  \/ \E p \in Clients, items \in ResultSets : FetchReturn(p, TRUE, items)
  \/ \E p \in Clients : AppendReturn(p, TRUE)
  \/ \E p \in Clients : SuccessWrites(p, Len(TrackedHeaders))

SpecOverlap ==
  InitWith({cfg \in Configs : cfg.leads # <<>>}, 0) /\ [][NextOverlap]_vars

\* A second start, from another page, while a step of the first run waits for
\* its job: both pages go on sending step requests, every external call
\* succeeds and every job ends SUCCEEDED with a dataset.
NextSupersede ==
  \/ runs = <<>> /\ \E endRaw \in 1..MaxRow : Start(1, TRUE, 2, endRaw, Len(TrackedHeaders), FALSE)
  \/ /\ Len(runs) = 1
     /\ loc[1].pc = "polling"
     /\ \E endRaw \in 1..MaxRow : Start(2, TRUE, 2, endRaw, Len(TrackedHeaders), FALSE)
  \/ \E p \in Clients : StepRequest(p)
  \/ \E p \in Clients : StepDispatch(p)
  \/ \E p \in Clients, inp \in RowInputs : GetRowReturn(p, TRUE, inp, "T")
  \/ \E p \in Clients : MissingWrites(p, 5)
  \/ \E p \in Clients : RunningWrite(p, TRUE, TRUE)
  \/ \E p \in Clients : StartActorReturn(p)
  \/ \E p \in Clients : PollReturn(p, TRUE, "SUCCEEDED", TRUE)
  \/ \E p \in Clients, items \in ResultSets : FetchReturn(p, TRUE, items)
  \/ \E p \in Clients : AppendReturn(p, TRUE)
  \/ \E p \in Clients : SuccessWrites(p, Len(TrackedHeaders))

SpecSupersede ==
  InitWith({cfg \in Configs : cfg.leads # <<>>}, 0) /\ [][NextSupersede]_vars

\* The state in which nothing has been started, with client 1 about to make
\* one of the library calls cs on its own while the provider holds the jobs js.
InitProvider(cs, js) ==
  /\ headers = UserHeaders \o <<"Scraped">>
  /\ leadsName = ""
  /\ leadsHeaderRow = <<>>
  /\ leads = <<>>
  /\ rows = [r \in DataRows |-> [c \in 1..NCols |-> ""]]
  /\ cancelRequested = FALSE
  /\ activeRunId = 0
  /\ activeToken = ""
  /\ currentRun = 0
  /\ runs = <<>>
  /\ jobs = js
  /\ abortCalls = {}
  /\ \E c \in cs : loc = [p \in Clients |-> IF p = 1 THEN [IdleLoc EXCEPT !.call = c] ELSE IdleLoc]
  /\ resp = [p \in Clients |-> NoResp]
  /\ pollRef = [p \in Clients |-> 0]
  /\ cancelResp = NoResp
  /\ cancelPc = "idle"
  /\ budget = 0
  /\ begunAtCancel = 0

\* a library call returns
Return(p, v) ==
  /\ loc' = [loc EXCEPT ![p].call.returned = TRUE, ![p].call.ret = v]
  /\ UNCHANGED <<sheetVars, stateVars, runs, providerVars, pageVars,
                 cancelResp, cancelPc, budget, begunAtCancel>>

\* Opening hours as the provider's records hold them.
DayTexts ==
  { <<"M", "o", "n">>, <<"T", "u", "e">>, <<" ", "t", "u", "e", "s", " ">>,
    <<"F", "u", "n", "d", "a", "y">> }
HoursTexts ==
  { <<"9", " ", "t", "o", " ", "5", " ", "P", "M">>,
    <<"C", "l", "o", "s", "e", "d">>,
    <<"c", "l", "o", "s", "e", "d", " ">>,
    <<>>,
    <<"9", "NNBSP", "A", "M", " ", "t", "o", " ", "5", "NNBSP", "P", "M", ",", " ",
      "6", " ", "T", "O", " ", "8", ":", "3", "0", "p", "m">>,
    <<"O", "p", "e", "n", " ", "2", "4", " ", "h", "o", "u", "r", "s">> }
OpeningHoursItems ==
  {[openingHours |-> << [day |-> d, hours |-> h] >>] : d \in DayTexts, h \in HoursTexts}
    \cup {[openingHours |-> << [day |-> <<"M", "o", "n">>,
                                hours |-> <<"9", " ", "t", "o", " ", "5", " ", "P", "M">>],
                               [day |-> <<"T", "u", "e">>,
                                hours |-> <<"C", "l", "o", "s", "e", "d">>] >>]}

\* Times as they are written: an hour, minutes or none, a meridiem or none.
HourTexts == { <<"9">>, <<"0", "9">>, <<"1", "2">> }
MinuteTexts == { <<>>, <<":", "0", "0">>, <<":", "3", "0">> }
MeridiemTexts ==
  { <<>>, <<" ", "A", "M">>, <<" ", "p", "m">>, <<"P", "M">>, <<"NNBSP", "P", "M">> }
TimeParts == [h : HourTexts, m : MinuteTexts, mer : MeridiemTexts]
TimeText(t) == t.h \o t.m \o t.mer
RangeText(a, b) == TimeText(a) \o <<" ", "t", "o", " ">> \o TimeText(b)

HoursCalls ==
  {[NoCall EXCEPT !.fn = "toOpeningHoursText", !.arg = item] : item \in OpeningHoursItems}
    \cup {[NoCall EXCEPT !.fn = "normalizeHoursRanges", !.arg = <<a, b>>] :
            a \in TimeParts, b \in TimeParts}

CallToOpeningHoursText(p) ==
  /\ loc[p].call.fn = "toOpeningHoursText"
  /\ ~loc[p].call.returned
  /\ Return(p, toOpeningHoursText(loc[p].call.arg))

CallNormalizeHoursRanges(p) ==
  /\ loc[p].call.fn = "normalizeHoursRanges"
  /\ ~loc[p].call.returned
  /\ Return(p, normalizeHoursRanges(RangeText(loc[p].call.arg[1], loc[p].call.arg[2])))

NextHours == CallToOpeningHoursText(1) \/ CallNormalizeHoursRanges(1)

SpecHours == InitProvider(HoursCalls, {}) /\ [][NextHours]_vars

\* ------------------------------------------------ the Scraped column
\* The settings header rows a user may have: the three input columns followed
\* by up to MaxExtraCols columns headed Scraped (in either spelling), Status
\* or nothing.
RECURSIVE HeaderTails(_)
HeaderTails(n) ==
  IF n = 0 THEN {<<>>}
  ELSE HeaderTails(n - 1)
         \cup {Append(t, h) : t \in {u \in HeaderTails(n - 1) : Len(u) = n - 1},
                              h \in {"Scraped", " scraped ", "Status", ""}}

HeaderCalls ==
  {[fn |-> "ensureHeader", arg |-> UserHeaders \o t, returned |-> FALSE, ret |-> 0] :
     t \in HeaderTails(MaxExtraCols)}

\* start on the header row: the six ensureHeader calls and the run object
\* with its columns; the step then looks the Scraped value up
CallEnsureHeaders(p) ==
  LET c == loc[p].call
      hs == EnsureFirst(c.arg, Len(TrackedHeaders))
  IN /\ c.fn = "ensureHeader"
     /\ loc' = [loc EXCEPT ![p].call =
                 [fn |-> "getFromRowCaseInsensitive", returned |-> FALSE, ret |-> 0,
                  arg |-> NewRun(1, hs, <<>>, "", 2, 2, {})]]
     /\ UNCHANGED <<sheetVars, stateVars, runs, providerVars, pageVars,
                    cancelResp, cancelPc, budget, begunAtCancel>>

\* the step's lookup of "Scraped" in a row whose cells hold their own column
\* numbers: what it returns is the column it read
CallGetFromRow(p) ==
  LET c == loc[p].call
      hs == c.arg.headersAfterEnsure
      rowValues == [i \in 1..Len(hs) |-> i]
  IN /\ c.fn = "getFromRowCaseInsensitive"
     /\ ~c.returned
     /\ Return(p, getFromRowCaseInsensitive(rowToDict(hs, rowValues), "Scraped"))

NextColumns == CallEnsureHeaders(1) \/ CallGetFromRow(1)

SpecColumns == InitProvider(HeaderCalls, {}) /\ [][NextColumns]_vars

\* ------------------------------------------------- waitForRunToFinish
\* The requested interval is given in half milliseconds (or not given), so
\* that Math.floor has something to round.
PollIntervals ==
  {[given |-> FALSE, halfMs |-> 0]}
    \cup {[given |-> TRUE, halfMs |-> h] : h \in {-1, 0, 1999, 2000, 2001, 3999, 6001}}

\* Math.max(1000, Math.floor(params.pollIntervalMs ?? 3000))
pollIntervalMs(arg) ==
  LET floored == IF arg.given THEN arg.halfMs \div 2 ELSE 3000
  IN IF floored > 1000 THEN floored ELSE 1000

WaitCalls ==
  {[fn |-> "waitForRunToFinish", arg |-> a, returned |-> FALSE,
    ret |-> [threw |-> FALSE, status |-> ""], pc |-> "fetch", delay |-> 0] :
     a \in PollIntervals}

\* the status of the job the call waits for, as the provider reports it
JobStatus == (CHOOSE j \in jobs : TRUE).status

\* the provider moves the job on: READY, RUNNING, then a terminal status,
\* possibly through TIMING-OUT or ABORTING
ProviderAdvance ==
  /\ \E next \in CASE JobStatus = "READY" -> {"RUNNING"}
                   [] JobStatus = "RUNNING" -> {"SUCCEEDED", "FAILED", "TIMING-OUT", "ABORTING"}
                   [] JobStatus = "TIMING-OUT" -> {"TIMED-OUT"}
                   [] JobStatus = "ABORTING" -> {"ABORTED"}
                   [] OTHER -> {} :
       jobs' = {[j EXCEPT !.status = next] : j \in jobs}
  /\ UNCHANGED <<sheetVars, stateVars, runs, abortCalls, loc, pageVars,
                 cancelResp, cancelPc, budget, begunAtCancel>>

\* a status check that returns the job whatever its status
WaitFetchOnce(p, ok) ==
  /\ loc[p].call.fn = "waitForRunToFinish"
  /\ ~loc[p].call.returned
  /\ loc[p].call.pc = "fetch"
  /\ IF ~ok THEN Return(p, [threw |-> TRUE, status |-> ""])
     ELSE Return(p, [threw |-> FALSE, status |-> JobStatus])

\* one pass of the loop: the status request is answered (ok) or refused; a
\* terminal status is returned, any other starts the sleep
WaitFetch(p, ok) ==
  /\ loc[p].call.fn = "waitForRunToFinish"
  /\ ~loc[p].call.returned
  /\ loc[p].call.pc = "fetch"
  /\ IF ~ok THEN Return(p, [threw |-> TRUE, status |-> ""])
     ELSE IF ToUpperCase(JobStatus) \in TerminalStatuses
       THEN Return(p, [threw |-> FALSE, status |-> JobStatus])
     ELSE /\ loc' = [loc EXCEPT ![p].call.pc = "sleep",
                                ![p].call.delay = pollIntervalMs(loc[p].call.arg)]
          /\ UNCHANGED <<sheetVars, stateVars, runs, providerVars, pageVars,
                         cancelResp, cancelPc, budget, begunAtCancel>>

\* the timer of sleep fires
WaitSleepDone(p) ==
  /\ loc[p].call.fn = "waitForRunToFinish"
  /\ loc[p].call.pc = "sleep"
  /\ loc' = [loc EXCEPT ![p].call.pc = "fetch"]
  /\ UNCHANGED <<sheetVars, stateVars, runs, providerVars, pageVars,
                 cancelResp, cancelPc, budget, begunAtCancel>>

NextWait == (\E ok \in BOOLEAN : WaitFetch(1, ok)) \/ WaitSleepDone(1) \/ ProviderAdvance

\* Every status request is answered and every timer fires; the provider moves
\* the job on when it likes, or never.
SpecWait ==
  /\ InitProvider(WaitCalls, {[id |-> 1, token |-> "T", status |-> "READY"]})
  /\ [][NextWait]_vars
  /\ WF_vars(\E ok \in BOOLEAN : WaitFetch(1, ok))
  /\ WF_vars(WaitSleepDone(1))

\* ---------------------------------------------------- getDatasetItems
\* The result sets the provider may hold under the dataset id: items 1..n for
\* sizes around every multiple of the page size up to MaxPages pages.
DatasetSizes ==
  {k * limit + d : k \in 0..(MaxPages - 1), d \in {0, 1, 2, 3, 500, 997, 998, 999}}
    \cup {MaxPages * limit}

ItemsCalls ==
  {[fn |-> "getDatasetItems", arg |-> [token |-> "T", datasetId |-> "ds1"],
    returned |-> FALSE, ret |-> [threw |-> FALSE, items |-> <<>>],
    dataset |-> [i \in 1..n |-> i], items |-> <<>>, offset |-> 0, requests |-> <<>>] :
     n \in DatasetSizes}

\* what the provider answers to a request for lim items from offset
Page(dataset, offset, lim) ==
  SubSeq(dataset, offset + 1,
         IF offset + lim < Len(dataset) THEN offset + lim ELSE Len(dataset))

\* a loop that takes the first page for the last
FetchPageFirstOnly(p, ok) ==
  LET c == loc[p].call
      batch == Page(c.dataset, c.offset, limit)
      asked == Append(c.requests, [offset |-> c.offset, limit |-> limit, ok |-> ok])
  IN /\ c.fn = "getDatasetItems"
     /\ ~c.returned
     /\ loc' = [loc EXCEPT ![p].call =
          IF ~ok
            THEN [c EXCEPT !.requests = asked, !.returned = TRUE,
                           !.ret = [threw |-> TRUE, items |-> <<>>]]
            ELSE [c EXCEPT !.requests = asked, !.items = c.items \o batch,
                           !.returned = TRUE,
                           !.ret = [threw |-> FALSE, items |-> c.items \o batch]]]
     /\ UNCHANGED <<sheetVars, stateVars, runs, providerVars, pageVars,
                    cancelResp, cancelPc, budget, begunAtCancel>>

\* one pass of the loop: the page at offset is requested; a refused request
\* throws, a page is pushed onto items, a page shorter than limit ends the loop
\* and any other moves the offset on by its length
FetchPage(p, ok) ==
  LET c == loc[p].call
      batch == Page(c.dataset, c.offset, limit)
      asked == Append(c.requests, [offset |-> c.offset, limit |-> limit, ok |-> ok])
  IN /\ c.fn = "getDatasetItems"
     /\ ~c.returned
     /\ loc' = [loc EXCEPT ![p].call =
          IF ~ok
            THEN [c EXCEPT !.requests = asked, !.returned = TRUE,
                           !.ret = [threw |-> TRUE, items |-> <<>>]]
          ELSE IF Len(batch) < limit
            THEN [c EXCEPT !.requests = asked, !.items = c.items \o batch,
                           !.returned = TRUE,
                           !.ret = [threw |-> FALSE, items |-> c.items \o batch]]
          ELSE [c EXCEPT !.requests = asked, !.items = c.items \o batch,
                         !.offset = c.offset + Len(batch)]]
     /\ UNCHANGED <<sheetVars, stateVars, runs, providerVars, pageVars,
                    cancelResp, cancelPc, budget, begunAtCancel>>

NextItems == \E ok \in BOOLEAN : FetchPage(1, ok)

SpecItems == InitProvider(ItemsCalls, {}) /\ [][NextItems]_vars

\* A run over any range of a sheet of MaxDrainRow rows that the page cancels
\* before its first step request is dispatched.
InitDrain ==
  /\ headers = UserHeaders \o <<"Scraped">>
  /\ leadsName = ""
  /\ leadsHeaderRow = <<>>
  /\ leads = <<>>
  /\ rows = [r \in 2..MaxDrainRow |-> [c \in 1..NCols |-> ""]]
  /\ cancelRequested = FALSE
  /\ activeRunId = 0
  /\ activeToken = ""
  /\ currentRun = 0
  /\ runs = <<>>
  /\ jobs = {}
  /\ abortCalls = {}
  /\ loc = [p \in Clients |-> IdleLoc]
  /\ resp = [p \in Clients |-> NoResp]
  /\ pollRef = [p \in Clients |-> 0]
  /\ cancelResp = NoResp
  /\ cancelPc = "idle"
  /\ budget = MaxFaults
  /\ begunAtCancel = 0

StartLong(p) ==
  \E startRaw \in 1..MaxDrainRow, endRaw \in 1..MaxDrainRow :
    Start(p, TRUE, startRaw, endRaw, Len(TrackedHeaders), FALSE)

NextDrain ==
  \/ runs = <<>> /\ StartLong(1)
  \/ StopRun(1)
  \/ StepRequest(1)
  \/ cancelRequested /\ StepDispatch(1)
  \/ \E k \in WriteCounts(5) : DrainRow(1, k)

SpecDrain == InitDrain /\ [][NextDrain]_vars

\* a step request of the page that passes the authorization check
AuthorizedStep(p) == pollRef[p] # 0 /\ StepBegin(p, TRUE, pollRef[p])

\* The same run when the page keeps polling (its timer fires every 1500 ms),
\* the requests are authorized again and again, and every awaited call of
\* a step comes back.
LiveSpec ==
  Init /\ [][Next]_vars /\ WF_vars(AuthorizedStep(1)) /\ WF_vars(StepRun(1))

\* ------------------------------------------------------------------ claims
\* a step response that reports the run done
DoneResponse(p) == resp[p].route = "step" /\ resp[p].kind = "summary" /\ resp[p].done

\* C1: when a step returns done = true, the perRow log it carries holds
\* exactly endRow - startRow + 1 entries, the i-th of them for row
\* startRow + i - 1, whatever the outcomes of the rows were.
DonePerRowComplete ==
  \A p \in Clients :
    DoneResponse(p) =>
      /\ Len(resp[p].perRow) = resp[p].endRow - resp[p].startRow + 1
      /\ \A i \in 1..Len(resp[p].perRow) :
           resp[p].perRow[i].row = resp[p].startRow + i - 1

\* a done response over two rows: the first succeeded, the second drained
DonePerRowCompleteWitness ==
  /\ DoneResponse(1)
  /\ Len(resp[1].perRow) = 2
  /\ resp[1].perRow[1].status = "succeeded"
  /\ resp[1].perRow[2].message = "Cancelled by user."

\* the outcome of a row drained or cancelled
IsCancelled(e) == e.status = "skipped" /\ e.message = "Cancelled by user."

\* C2: once cancel() has set the flag while a run is active and the caller
\* keeps invoking step, a step eventually returns done = true, and in that
\* summary every row that had not begun when the flag was set is skipped with
\* the message "Cancelled by user.".
CancelledRunDrains ==
  /\ (cancelRequested /\ currentRun # 0) ~> DoneResponse(1)
  /\ [](\A p \in Clients :
          (DoneResponse(p) /\ cancelRequested) =>
            \A i \in (begunAtCancel + 1)..Len(resp[p].perRow) :
              IsCancelled(resp[p].perRow[i]))

\* a done response of a run cancelled after its first row had begun and
\* before its second had
CancelledRunDrainsWitness ==
  /\ DoneResponse(1)
  /\ cancelRequested
  /\ begunAtCancel = 1
  /\ Len(resp[1].perRow) = 2
  /\ ~IsCancelled(resp[1].perRow[1])

\* C3: once the cancellation flag is set no job is started for the run, also
\* not by a step that passed its cancellation check before the flag was set
\* and is at the RUNNING write that precedes startActorRun.
NoStartAfterCancel ==
  [][\A p \in Clients :
       (cancelRequested /\ loc[p].pc = "runningWrite") => loc'[p].pc # "starting"]_vars

\* the job client p's step has started is known to the provider and has not
\* reached a terminal status
JobRunning(p) == loc[p].job # 0 /\ \E j \in jobs : j.id = loc[p].job

\* C4: a cancel request that arrives while the job of the current step is
\* running sends the provider an abort call with that job's id and token,
\* wherever the step is.
CancelAbortsRunningJob ==
  [][CancelPost =>
       \A p \in Clients :
         JobRunning(p) => <<loc[p].job, loc[p].token>> \in abortCalls']_vars

\* the cell of row r under the first header that is "scraped" when trimmed and
\* lower-cased
ScrapedCell(r) ==
  LET hits == {c \in 1..Len(headers) : ToLowerCase(Trim(headers[c])) = "scraped"}
  IN IF hits = {} THEN ""
     ELSE rows[r][CHOOSE c \in hits : \A d \in hits : c <= d]

\* C5: when the read of a row succeeds and the row's Scraped cell, trimmed and
\* upper-cased, is Y, the step returns with the row logged as skipped
\* ("Already completed"), the cursor moved by one, no cell of the sheet
\* written and no call made to the provider.
ScrapedRowSkipped ==
  [][\A p \in Clients :
       LET l == loc[p]
           before == runs[l.run]
           after == runs'[l.run]
       IN (/\ l.pc = "getRow"
           /\ loc'[p].pc # "getRow"
           /\ resp'[p].kind # "error"
           /\ ToUpperCase(Trim(ScrapedCell(l.row))) = "Y")
          => /\ loc'[p].pc = "idle"
             /\ after.currentIndex = before.currentIndex + 1
             /\ after.perRow = Append(before.perRow,
                   Entry(l.row, "skipped", "Already completed (Scraped = Y).", "", 0))
             /\ after.skipped = before.skipped + 1
             /\ after.processed = before.processed
             /\ rows' = rows
             /\ leads' = leads
             /\ jobs' = jobs
             /\ abortCalls' = abortCalls]_vars

ScrapedRowSkippedWitness ==
  /\ headers[Len(UserHeaders) + 1] = " scraped "
  /\ resp[1].kind = "summary"
  /\ \E i \in 1..Len(resp[1].perRow) :
       /\ resp[1].perRow[i].message = "Already completed (Scraped = Y)."
       /\ rows[resp[1].perRow[i].row][Len(UserHeaders) + 1] = " y"

\* C6: a row appended to the leads tab by a run has a key that no earlier row
\* of the tab has, whether that row was there at start (in its "Unique ID"
\* column) or was appended by the run; and every non-empty key the run
\* appends or is about to append is in the run's dedup set.
DedupWithinRun ==
  /\ \A i, j \in 1..Len(leads) :
       (i < j /\ leads[j].by # 0 /\ leads[j].key # "" /\ leads[i].by \in {0, leads[j].by})
         => leads[i].key # leads[j].key
  /\ \A j \in 1..Len(leads) :
       (leads[j].by # 0 /\ leads[j].key # "")
         => leads[j].key \in runs[leads[j].by].existingUniqueIds
  /\ \A p \in Clients : \A j \in 1..Len(loc[p].leadRows) :
       loc[p].leadRows[j].key # ""
         => /\ loc[p].leadRows[j].key \in runs[loc[p].run].existingUniqueIds
            /\ \A i \in 1..(j - 1) : loc[p].leadRows[i].key # loc[p].leadRows[j].key
            /\ loc[p].pc = "appending"
                 => \A i \in 1..Len(leads) : leads[i].key # loc[p].leadRows[j].key

DedupWithinRunWitness ==
  /\ Len(leads) = 3
  /\ leads[1].key = "b" /\ leads[1].by = 1
  /\ leads[2].key = "" /\ leads[3].key = ""
  /\ Len(runs[1].perRow) = 2
  /\ runs[1].perRow[2].status = "succeeded" /\ runs[1].perRow[2].leads = 1

\* C7: a non-empty key appended to the leads tab by one run is not appended
\* by a later run.
NoReappendAcrossRuns ==
  \A i, j \in 1..Len(leads) :
    (i < j /\ leads[i].by # 0 /\ leads[j].by # 0 /\ leads[i].by # leads[j].by
       /\ leads[i].key # "")
      => leads[i].key # leads[j].key

\* the messages of the exceptions of the provider calls and of the append
RowExceptions ==
  {"Apify start failed.", "Apify status failed.",
   "Apify run did not return defaultDatasetId", "Apify dataset items failed.",
   "append failed"}

\* C8: a step whose job start, poll, fetch or append threw returns with the
\* row logged as failed with the message, FAILED / Failed / N / the message
\* written to the row, the cursor moved by one, and the run still current
\* and not done while rows remain.
RowFailureIsolated ==
  [][\A p \in Clients :
       LET l == loc[p]
           before == runs[l.run]
           after == runs'[l.run]
       IN (l.pc = "catchWrites" /\ l.msg \in RowExceptions /\ loc'[p].pc # "catchWrites")
          => /\ after.perRow = Append(before.perRow, Entry(l.row, "failed", l.msg, "", 0))
             /\ after.currentIndex = before.currentIndex + 1
             /\ rows'[l.row][before.scrapeStatusCol] = "FAILED"
             /\ rows'[l.row][before.statusCol] = "Failed"
             /\ rows'[l.row][before.scrapedCol] = "N"
             /\ rows'[l.row][before.commentsCol] = l.msg
             /\ after.currentIndex < RowCount(after)
                  => currentRun' = l.run /\ resp'[p].kind = "summary" /\ ~resp'[p].done]_vars

\* a spreadsheet call of client p's step has failed while it handles its row
SheetCallFailed(p) ==
  \/ loc[p].pc \in {"getRow", "drain", "missingWrites", "successWrites",
                     "cancelWrites", "catchWrites", "appending"} /\ budget' < budget
  \/ loc[p].pc = "runningWrite" /\ loc'[p].msg = "sheet write failed"
  \/ loc[p].pc = "catchWrites" /\ loc[p].msg \in {"sheet write failed", "append failed"}

\* C9: a step in which a spreadsheet call failed does not return before the
\* row is logged as failed and the cursor has moved past it, and the rows
\* counted as processed or skipped are never more than the rows begun.
SheetFailureIsRowFailure ==
  [][\A p \in Clients :
       LET l == loc[p]
           before == runs[l.run]
           after == runs'[l.run]
       IN /\ (l.pc \in RowPcs \cup {"drain"} /\ SheetCallFailed(p) /\ loc'[p].pc = "idle")
             => /\ after.currentIndex = before.currentIndex + 1
                /\ Len(after.perRow) = Len(before.perRow) + 1
                /\ after.perRow[Len(after.perRow)].row = l.row
                /\ after.perRow[Len(after.perRow)].status = "failed"
          /\ l.run # 0
             => after.processed + after.skipped
                  <= after.currentIndex + (IF loc'[p].pc = "idle" THEN 0 ELSE 1)]_vars

\* C10: a row is logged as succeeded, and its records are appended to the
\* leads tab, only when the status its job ended with is SUCCEEDED.
SucceededOnlyIfJobSucceeded ==
  [][\A p \in Clients :
       LET l == loc[p]
       IN (\/ /\ l.pc = "successWrites"
               /\ Len(runs'[l.run].perRow) > Len(runs[l.run].perRow)
               /\ runs'[l.run].perRow[Len(runs'[l.run].perRow)].status = "succeeded"
           \/ l.pc = "appending" /\ leads' # leads)
          => l.status = "SUCCEEDED"]_vars

\* a step request of client p is answered at once with error e
StepRefused(p, e) ==
  /\ loc[p].pc = "idle"
  /\ loc'[p].pc = "idle"
  /\ resp'[p] # resp[p]
  /\ resp'[p] = ErrorResp("step", e)

\* C11: a step request made while no run is active is answered with
\* no_active_run (not_authorized when the caller has no credentials) and
\* leaves runState, the spreadsheet and the provider as they were.
NoActiveRunChangesNothing ==
  [][\A p \in Clients :
       (/\ currentRun = 0
        /\ loc[p].pc = "idle"
        /\ resp'[p] # resp[p]
        /\ resp'[p].route = "step")
       => /\ StepRefused(p, "no_active_run") \/ StepRefused(p, "not_authorized")
          /\ UNCHANGED <<sheetVars, stateVars, runs, providerVars>>]_vars

NoActiveRunChangesNothingWitness ==
  /\ resp[1] = ErrorResp("step", "no_active_run")
  /\ currentRun = 0
  /\ runs # <<>>
  /\ runs[Len(runs)].finishedAt
  /\ activeRunId # 0

\* C12: a step request whose run id is not empty and differs from the id of
\* the run that was active when it arrived is answered with run_mismatch and
\* leaves the run, runState, the spreadsheet and the provider as they were;
\* a request with no run id, or with the run's id, goes on with that run: it
\* drains, reads the row at the cursor, or reports the run done.
RunMismatchLeavesRun ==
  [][\A p \in Clients :
       LET l == loc[p]
           run == runs[l.run]
       IN (l.pc = "parsed" /\ loc'[p] # l)
          => IF l.rid # 0 /\ l.rid # run.runId
               THEN /\ resp'[p] = ErrorResp("step", "run_mismatch")
                    /\ loc'[p].pc = "idle"
                    /\ UNCHANGED <<sheetVars, stateVars, runs, providerVars>>
               ELSE \/ /\ loc'[p].pc \in {"drain", "getRow"}
                       /\ loc'[p].run = l.run
                       /\ loc'[p].row = run.rowNumbers[run.currentIndex + 1]
                    \/ /\ loc'[p].pc = "idle"
                       /\ resp'[p].kind = "summary"
                       /\ resp'[p].runId = run.runId
                       /\ resp'[p].done]_vars

RunMismatchLeavesRunWitness ==
  /\ resp[1] = ErrorResp("step", "run_mismatch")
  /\ currentRun # 0
  /\ runs[currentRun].currentIndex = 1
  /\ Len(runs[currentRun].perRow) = 1
  /\ cancelRequested

\* client p receives the summary of a run that start has just created
StartSucceeds(p) ==
  /\ resp'[p] # resp[p]
  /\ resp'[p].route = "start"
  /\ resp'[p].kind = "summary"

\* C13: a start that succeeds makes a new run object the active run, with an
\* id no earlier run had, cursor 0, an empty log, zero counters, the
\* cancellation flag false and no job id or token recorded; from then on
\* every step request that is executing works on the active run, and a step
\* request that carries the id of an earlier run is answered run_mismatch
\* and changes no run.
StartReplacesRunState ==
  [][/\ \A p \in Clients :
          StartSucceeds(p)
          => /\ Len(runs') = Len(runs) + 1
             /\ currentRun' = Len(runs')
             /\ runs'[currentRun'].runId = resp'[p].runId
             /\ \A i \in 1..Len(runs) : runs'[i].runId # resp'[p].runId
             /\ \A i \in 1..Len(runs) : runs[i].runId # resp'[p].runId
             /\ runs'[currentRun'].currentIndex = 0
             /\ runs'[currentRun'].perRow = <<>>
             /\ runs'[currentRun'].processed = 0
             /\ runs'[currentRun'].skipped = 0
             /\ runs'[currentRun'].totalLeads = 0
             /\ ~runs'[currentRun'].finishedAt
             /\ ~cancelRequested'
             /\ activeRunId' = 0
             /\ activeToken' = ""
     /\ \A p \in Clients : loc'[p].run # 0 => loc'[p].run = currentRun'
     /\ \A p \in Clients :
          (/\ loc[p].pc = "parsed"
           /\ loc'[p] # loc[p]
           /\ loc[p].rid # 0
           /\ loc[p].rid < runs[loc[p].run].runId)
          => /\ resp'[p] = ErrorResp("step", "run_mismatch")
             /\ runs' = runs]_vars

\* a run that was cancelled after its first row and had not finished has been
\* superseded, and a step request with its id has been refused
StartReplacesRunStateWitness ==
  /\ Len(runs) = 2
  /\ ~runs[1].finishedAt
  /\ currentRun = 2
  /\ runs[2].currentIndex = 0
  /\ ~cancelRequested
  /\ cancelResp = OkResp("cancel")
  /\ rows[2][runs[2].commentsCol] = "Cancelled by user."
  /\ resp[1] = ErrorResp("step", "run_mismatch")

\* client p's start request is answered with error e
StartRefused(p, e) ==
  /\ resp'[p] = ErrorResp("start", e)
  /\ resp'[p] # resp[p] \/ headers' # headers

\* C14: a start request answered with not_authorized or missing_leads_headers
\* leaves the active run, the cancellation flag, the recorded job id and
\* token and every run object as they were.
FailedStartKeepsRunState ==
  [][\A p \in Clients :
       (StartRefused(p, "not_authorized") \/ StartRefused(p, "missing_leads_headers"))
         => UNCHANGED <<stateVars, runs>>]_vars

FailedStartKeepsRunStateWitness ==
  /\ resp[1] = ErrorResp("start", "not_authorized")
  /\ currentRun # 0
  /\ runs[currentRun].currentIndex = 1
  /\ cancelRequested
  /\ activeRunId # 0

\* client p's step request is answered with a summary that says done
StepReturnsDone(p) ==
  /\ resp'[p] # resp[p]
  /\ resp'[p].route = "step"
  /\ resp'[p].kind = "summary"
  /\ resp'[p].done

HoldsCancelled(rws, run, r) ==
  \A i \in 1..Len(CancelledWrites(run)) :
    rws[r][CancelledWrites(run)[i][1]] = CancelledWrites(run)[i][2]

\* C16: a step that finds the cancellation flag set reads no row and starts
\* no job; each pass of its loop writes the five cancellation values to the
\* row at the cursor, logs the row as skipped "Cancelled by user." and moves
\* the cursor by one; it goes on while rows remain and fewer than cancelBatch
\* rows were drained, so it returns after min(cancelBatch, remaining rows)
\* rows, done exactly when none remains (no spreadsheet call failing).
DrainMarksBatch ==
  [][\A p \in Clients :
       LET l == loc[p]
           before == runs[l.run]
           after == runs'[l.run]
           k == l.n + 1
       IN /\ (l.pc = "parsed" /\ cancelRequested /\ loc'[p] # l
                /\ resp'[p].error # "run_mismatch")
             => /\ rows' = rows /\ jobs' = jobs
                /\ after.currentIndex = before.currentIndex
                /\ IF before.currentIndex < RowCount(before)
                     THEN /\ loc'[p].pc = "drain" /\ loc'[p].n = 0
                          /\ loc'[p].row = before.rowNumbers[before.currentIndex + 1]
                     ELSE StepReturnsDone(p)
          /\ (l.pc = "drain" /\ loc'[p] # l /\ resp'[p].kind # "error")
             => /\ jobs' = jobs
                /\ HoldsCancelled(rows', before, l.row)
                /\ \A r \in DOMAIN rows : r # l.row => rows'[r] = rows[r]
                /\ after.currentIndex = before.currentIndex + 1
                /\ after.perRow = Append(before.perRow,
                      Entry(l.row, "skipped", "Cancelled by user.", "", 0))
                /\ IF k < cancelBatch /\ after.currentIndex < RowCount(after)
                     THEN /\ loc'[p].pc = "drain" /\ loc'[p].n = k
                          /\ loc'[p].row = after.rowNumbers[after.currentIndex + 1]
                     ELSE /\ loc'[p].pc = "idle"
                          /\ resp'[p].kind = "summary"
                          /\ resp'[p].done <=> after.currentIndex = RowCount(after)
                          /\ \A i \in 1..k :
                               LET e == after.perRow[Len(after.perRow) - k + i]
                               IN /\ IsCancelled(e)
                                  /\ e.row = after.rowNumbers[after.currentIndex - k + i]
                                  /\ HoldsCancelled(rows', after, e.row)]_vars

\* a step has drained cancelBatch rows of a longer range and is not done
DrainMarksBatchWitness ==
  /\ resp[1].route = "step" /\ resp[1].kind = "summary" /\ ~resp[1].done
  /\ Len(resp[1].perRow) = cancelBatch
  /\ \A i \in 1..cancelBatch : IsCancelled(resp[1].perRow[i])
  /\ currentRun # 0
  /\ runs[currentRun].currentIndex = cancelBatch
  /\ RowCount(runs[currentRun]) = cancelBatch + 2

\* C17: when the poll of a row's job returns while the cancellation flag is
\* set, or returns the status ABORTED, the step goes to the cancellation
\* writes without fetching: the leads tab and the dedup set stay as they
\* are, and when the writes are done the row holds the cancellation values
\* (Scraped N), is logged as skipped "Cancelled by user." and the cursor has
\* moved by one.
CancelledPollSkipsRow ==
  [][\A p \in Clients :
       LET l == loc[p]
           before == runs[l.run]
           after == runs'[l.run]
       IN /\ (l.pc = "polling" /\ loc'[p] # l /\ cancelRequested
                /\ loc'[p].msg # "Apify status failed.")
             => /\ loc'[p].pc = "cancelWrites"
                /\ leads' = leads
                /\ runs' = runs
          /\ \A hasDataset \in BOOLEAN :
               PollReturn(p, TRUE, "ABORTED", hasDataset)
                 => loc'[p].pc = "cancelWrites" /\ leads' = leads /\ runs' = runs
          /\ (l.pc = "cancelWrites" /\ loc'[p] # l /\ loc'[p].pc # "catchWrites")
             => /\ loc'[p].pc = "idle"
                /\ resp'[p].kind = "summary"
                /\ after.perRow = Append(before.perRow,
                      Entry(l.row, "skipped", "Cancelled by user.", "", 0))
                /\ after.currentIndex = before.currentIndex + 1
                /\ after.existingUniqueIds = before.existingUniqueIds
                /\ after.totalLeads = before.totalLeads
                /\ HoldsCancelled(rows', before, l.row)
                /\ rows'[l.row][before.scrapedCol] = "N"
                /\ leads' = leads
                /\ jobs' = jobs]_vars

\* a job that ended ABORTED without any cancel request: its row is skipped
CancelledPollSkipsRowWitness ==
  /\ ~cancelRequested
  /\ cancelResp = NoResp
  /\ currentRun # 0
  /\ runs[currentRun].processed = 1
  /\ runs[currentRun].perRow = <<Entry(2, "skipped", "Cancelled by user.", "", 0)>>
  /\ rows[2][runs[currentRun].scrapedCol] = "N"
  /\ leadsName # ""
  /\ resp[1].kind = "summary"

\* C18: a cancel request sets the flag and leaves the active run, its cursor,
\* log and counters and the recorded job as they are; a request that finds
\* the flag already set changes nothing of runState; a request made while no
\* run is active sends no abort call.
CancelIdempotent ==
  [][CancelPost
       => /\ cancelRequested'
          /\ UNCHANGED <<activeRunId, activeToken, currentRun, runs>>
          /\ currentRun = 0 => cancelPc' = "idle" /\ abortCalls' = abortCalls]_vars

\* C19: whether the abort call succeeds or fails, the cancel request is
\* answered ok and the cancellation flag stays set.
AbortFailureIsNoError ==
  [][(cancelPc = "aborting" /\ cancelPc' = "idle")
       => cancelResp' = OkResp("cancel") /\ cancelRequested']_vars

\* what the user's columns of a row hold: no token in the cell nor in the
\* environment; no location, or no sub-niche term
TokenMissing(inp, envToken) == Trim(inp.tok) = "" /\ Trim(envToken) = ""
InputMissing(inp) == Trim(inp.loc) = "" \/ inp.sub \in {"", ","}

\* C20: when the read of a row that is not marked Scraped = Y finds no token,
\* or no location, or no sub-niche term, the step starts no job and goes to
\* the writes of the skip with the message of the failed precondition (the
\* token's first); when these are done the row holds FAILED, Failed, N and
\* the message, is logged as skipped with the message, and the cursor has
\* moved by one.
MissingPreconditionSkipsRow ==
  [][\A p \in Clients :
       LET l == loc[p]
           before == runs[l.run]
           after == runs'[l.run]
       IN /\ \A inp \in RowInputs, envToken \in EnvTokens :
               (/\ GetRowReturn(p, TRUE, inp, envToken)
                /\ ToUpperCase(Trim(ScrapedCell(l.row))) # "Y"
                /\ TokenMissing(inp, envToken) \/ InputMissing(inp))
               => /\ loc'[p].pc = "missingWrites"
                  /\ loc'[p].msg =
                       (IF TokenMissing(inp, envToken)
                          THEN "Missing Apify token in 'Apify API Key'."
                          ELSE "Missing 'Search Location' or 'Sub-Niches'.")
                  /\ UNCHANGED <<rows, leads, jobs, abortCalls>>
          /\ (l.pc = "missingWrites" /\ loc'[p] # l /\ resp'[p].kind # "error")
             => /\ loc'[p].pc = "idle"
                /\ resp'[p].kind = "summary"
                /\ after.perRow = Append(before.perRow, Entry(l.row, "skipped", l.msg, "", 0))
                /\ after.currentIndex = before.currentIndex + 1
                /\ rows'[l.row][before.scrapeStatusCol] = "FAILED"
                /\ rows'[l.row][before.statusCol] = "Failed"
                /\ rows'[l.row][before.scrapedCol] = "N"
                /\ rows'[l.row][before.commentsCol] = l.msg
                /\ UNCHANGED <<leads, jobs, abortCalls>>]_vars

MissingPreconditionSkipsRowWitness ==
  /\ currentRun # 0
  /\ runs[currentRun].currentIndex = 2
  /\ runs[currentRun].perRow =
       << Entry(2, "skipped", "Missing Apify token in 'Apify API Key'.", "", 0),
          Entry(3, "skipped", "Missing 'Search Location' or 'Sub-Niches'.", "", 0) >>
  /\ rows[3][runs[currentRun].commentsCol] = "Missing 'Search Location' or 'Sub-Niches'."
  /\ jobs = {}
  /\ resp[1].kind = "summary"

\* the columns of the header row hs that hold the header name
ColumnsNamed(hs, name) == {i \in 1..Len(hs) : Trim(hs[i]) = name}

\* the six column indices a run resolved at its start
TrackedCols(run) ==
  <<run.datasetCol, run.scrapedCol, run.statusCol, run.commentsCol,
    run.scrapeStatusCol, run.pushStatusCol>>

NotCompleted(e) ==
  \/ e.status = "failed"
  \/ e.status = "skipped" /\ e.message # "Already completed (Scraped = Y)."

\* what a step reads as the Scraped value of row r: the cell under the first
\* header of hs that is "scraped" when trimmed and lower-cased
ScrapedRead(hs, rws, r) ==
  LET hits == {c \in 1..Len(hs) : ToLowerCase(Trim(hs[c])) = "scraped"}
  IN IF hits = {} THEN ""
     ELSE rws[r][CHOOSE c \in hits : \A d \in hits : c <= d]

\* C22: when a run is started after another, every row of its range that the
\* run before logged as failed, cancelled or skipped for a missing
\* precondition holds a Scraped value other than Y, in the column the run
\* wrote and under the header the step reads; and a step of a later run logs
\* a row as already completed only if the Scraped value it read is Y.  So the
\* later run attempts every such row again.
FailedRowsRetried ==
  [][\A p \in Clients :
       /\ (StartSucceeds(p) /\ runs # <<>>)
          => LET earlier == runs[Len(runs)]
                 later == runs'[currentRun']
             IN \A i \in 1..Len(earlier.perRow) :
                  LET e == earlier.perRow[i]
                  IN (NotCompleted(e) /\ e.row \in later.startRow..later.endRow)
                     => /\ ToUpperCase(Trim(rows'[e.row][earlier.scrapedCol])) # "Y"
                        /\ ToUpperCase(Trim(ScrapedRead(headers', rows', e.row))) # "Y"
       /\ LET l == loc[p]
          IN (/\ l.pc = "getRow"
              /\ l.run > 1
              /\ Len(runs'[l.run].perRow) = Len(runs[l.run].perRow) + 1
              /\ runs'[l.run].perRow[Len(runs'[l.run].perRow)].message
                   = "Already completed (Scraped = Y).")
             => ToUpperCase(Trim(ScrapedCell(l.row))) = "Y"]_vars

\* the items URL of a dataset without credentials
TokenFreeUrl(datasetId) == "https://api.apify.com/v2/datasets/" \o datasetId \o "/items"

\* the URLs that name the dataset of a job and nothing else
TokenFreeUrls == {""} \cup {TokenFreeUrl(datasetIdOf(j.id)) : j \in jobs}

\* C23: the Dataset URL cell of every row of the active run's range, and
\* the datasetUrl of every entry of its log, is empty or the items URL of a
\* job's dataset with no token in it.
DatasetUrlTokenFree ==
  currentRun # 0 =>
    LET run == runs[currentRun]
    IN /\ \A r \in run.startRow..run.endRow : rows[r][run.datasetCol] \in TokenFreeUrls
       /\ \A i \in 1..Len(run.perRow) : run.perRow[i].datasetUrl \in TokenFreeUrls

\* the call of toOpeningHoursText with the one day entry <<day, hours>>
\* has returned
HoursOf(p, day, hours) ==
  /\ loc[p].call.fn = "toOpeningHoursText"
  /\ loc[p].call.returned
  /\ loc[p].call.arg.openingHours = <<[day |-> day, hours |-> hours]>>

\* C24: toOpeningHoursText turns the day entry Mon, "9 to 5 PM" into
\* "Monday - 9 AM to 5 PM" and the day entry Tue, "Closed" into
\* "Tuesday - Closed".
OpeningHoursExamples ==
  \A p \in Clients :
    /\ HoursOf(p, <<"M", "o", "n">>, <<"9", " ", "t", "o", " ", "5", " ", "P", "M">>)
         => loc[p].call.ret = "Monday - 9 AM to 5 PM"
    /\ HoursOf(p, <<"T", "u", "e">>, <<"C", "l", "o", "s", "e", "d">>)
         => loc[p].call.ret = "Tuesday - Closed"

\* the meridiem a written time carries, its hour without a leading zero and
\* its minutes (00 when none are written)
MeridiemOf(t) ==
  CASE t.mer = <<>> -> ""
    [] t.mer = <<" ", "A", "M">> -> "AM"
    [] OTHER -> "PM"
HourOf(t) == IF t.h = <<"0", "9">> THEN "9" ELSE Text(t.h)
MinuteOf(t) == IF t.m = <<>> THEN "00" ELSE t.m[2] \o t.m[3]

\* a time with the meridiem mer ("": none): H:MM AM without one, otherwise
\* H mer when the minutes are 00 and H:MM mer when they are not
TimeFormat(t, mer) ==
  IF mer = "" THEN HourOf(t) \o ":" \o MinuteOf(t) \o " AM"
  ELSE IF MinuteOf(t) = "00" THEN HourOf(t) \o " " \o mer
  ELSE HourOf(t) \o ":" \o MinuteOf(t) \o " " \o mer

\* C28: a range "A to B" is formatted as the start, " to ", the end, where the
\* end has its own meridiem or none and the start has its own meridiem or,
\* when it carries none, the meridiem of the end.
RangeFormat ==
  \A p \in Clients :
    (loc[p].call.fn = "normalizeHoursRanges" /\ loc[p].call.returned)
    => LET a == loc[p].call.arg[1]
           b == loc[p].call.arg[2]
       IN loc[p].call.ret =
            TimeFormat(a, IF MeridiemOf(a) # "" THEN MeridiemOf(a) ELSE MeridiemOf(b))
              \o " to " \o TimeFormat(b, MeridiemOf(b))

\* C25: in every run the cursor lies between 0 and the length of the range
\* and the log holds one entry for each row before the cursor, in the order
\* of the range; a step moves the cursor of a run by one or not at all; and
\* a step that has processed a row and returns its summary has appended one
\* entry, for that row, has moved the cursor by one, and reports done only
\* if the cursor has reached the length of the range.
CursorDiscipline ==
  /\ [](\A i \in 1..Len(runs) :
         /\ runs[i].currentIndex \in 0..Len(runs[i].rowNumbers)
         /\ Len(runs[i].perRow) = runs[i].currentIndex
         /\ \A k \in 1..Len(runs[i].perRow) :
              runs[i].perRow[k].row = runs[i].rowNumbers[k])
  /\ [][/\ \A i \in 1..Len(runs) :
            (runs[i].runId # 0 /\ runs'[i].runId = runs[i].runId)
            => runs'[i].currentIndex \in {runs[i].currentIndex, runs[i].currentIndex + 1}
        /\ \A p \in Clients :
            LET l == loc[p]
                before == runs[l.run]
                after == runs'[l.run]
            IN (l.pc \in RowPcs /\ loc'[p].pc = "idle" /\ resp'[p].kind = "summary")
               => /\ after.currentIndex = before.currentIndex + 1
                  /\ Len(after.perRow) = Len(before.perRow) + 1
                  /\ SubSeq(after.perRow, 1, Len(before.perRow)) = before.perRow
                  /\ after.perRow[Len(after.perRow)].row = l.row
                  /\ l.row = before.rowNumbers[before.currentIndex + 1]
                  /\ resp'[p].done => after.currentIndex = Len(after.rowNumbers)]_vars

\* a run over two rows is done with one row failed and one succeeded
CursorDisciplineWitness ==
  /\ DoneResponse(1)
  /\ runs # <<>>
  /\ runs[Len(runs)].currentIndex = 2
  /\ runs[Len(runs)].rowNumbers = <<2, 3>>
  /\ runs[Len(runs)].perRow[1].status = "failed"
  /\ runs[Len(runs)].perRow[2].status = "succeeded"

\* the cells of the success path in the order of their writes
SuccessCells(run, url, n) ==
  << <<run.datasetCol, url>>,
     <<run.scrapeStatusCol, "COMPLETED">>,
     <<run.commentsCol, "">>,
     <<run.statusCol, "Completed">>,
     <<run.pushStatusCol, ToString(n) \o " leads scraped">>,
     <<run.scrapedCol, "Y">> >>

\* C26: the step reaches the writes of the success path with the rows it
\* has appended to the leads tab for this row (none when no leads tab is
\* configured); the writes then change the row's cells in the order dataset
\* URL, COMPLETED, Comments cleared, Completed, "<n> leads scraped", Scraped
\* Y, n being the number of those rows, so that what a rejected write leaves
\* behind is a prefix of this list; and the row is logged succeeded, with
\* leads = n, exactly when the last of them, Scraped = Y, has been written.
SuccessWriteOrder ==
  [][\A p \in Clients :
       LET l == loc[p]
           run == runs[l.run]
           after == runs'[l.run]
           n == Len(l.leadRows)
           cells == SuccessCells(run, l.datasetUrl, n)
           logged == /\ Len(after.perRow) = Len(run.perRow) + 1
                     /\ after.perRow[Len(after.perRow)].status = "succeeded"
       IN /\ (l.pc = "fetching" /\ loc'[p].pc = "successWrites")
             => loc'[p].leadRows = <<>> /\ leads' = leads
          /\ (l.pc = "appending" /\ loc'[p].pc = "successWrites")
             => loc'[p].leadRows = l.leadRows /\ leads' = leads \o l.leadRows
          /\ (l.pc = "successWrites" /\ run.leadsSheetName = "") => n = 0
          /\ (l.pc = "successWrites" /\ loc'[p] # l)
             => /\ \E k \in 0..Len(cells) :
                     /\ \A j \in 1..Len(cells) :
                          rows'[l.row][cells[j][1]] =
                            IF j <= k THEN cells[j][2] ELSE rows[l.row][cells[j][1]]
                     /\ logged <=> k = Len(cells)
                /\ logged => after.perRow[Len(after.perRow)] =
                               Entry(l.row, "succeeded", "", l.datasetUrl, n)
          /\ (l.pc # "successWrites" /\ l.run # 0 /\ l.run <= Len(runs'))
             => ~logged]_vars

\* a row is logged succeeded with the two rows appended for it, its cells
\* written
SuccessWriteOrderWitness ==
  /\ currentRun # 0
  /\ Len(runs[currentRun].perRow) = 1
  /\ runs[currentRun].perRow[1].status = "succeeded"
  /\ runs[currentRun].perRow[1].leads = 2
  /\ rows[runs[currentRun].perRow[1].row][runs[currentRun].pushStatusCol] = "2 leads scraped"
  /\ rows[runs[currentRun].perRow[1].row][runs[currentRun].scrapedCol] = "Y"

\* C27: a step request that arrives while a run is active is accepted whatever
\* other step requests are running; a step request that finds the run
\* uncancelled and the cursor inside the range goes on to read the row at the
\* cursor, also when another request is processing that row; and a request
\* that has processed a row appends its entry and moves the cursor by one
\* wherever the cursor then is.  So the log always has as many entries as
\* the cursor counts, and two overlapping requests give one row two entries
\* and move the cursor past a row that gets none.
OverlappingStepsUnguarded ==
  /\ [](\A i \in 1..Len(runs) : Len(runs[i].perRow) = runs[i].currentIndex)
  /\ [][\A p \in Clients :
         LET l == loc[p]
             run == runs[l.run]
             after == runs'[l.run]
         IN /\ (l.pc = "idle" /\ currentRun # 0 /\ resp'[p] # resp[p])
               => loc'[p].pc = "parsed" /\ loc'[p].run = currentRun
            /\ (/\ l.pc = "parsed"
                /\ loc'[p] # l
                /\ ~cancelRequested
                /\ run.currentIndex < Len(run.rowNumbers))
               => /\ loc'[p].pc = "getRow"
                  /\ loc'[p].row = run.rowNumbers[run.currentIndex + 1]
            /\ (l.pc \in RowPcs /\ loc'[p].pc = "idle")
               => /\ after.currentIndex = run.currentIndex + 1
                  /\ Len(after.perRow) = Len(run.perRow) + 1
                  /\ after.perRow[Len(after.perRow)].row = l.row]_vars

\* a run over rows 2 and 3 is done with two succeeded entries for row 2, of
\* two jobs, and none for row 3, whose cells were never written
OverlappingStepsUnguardedWitness ==
  /\ runs # <<>>
  /\ runs[1].rowNumbers = <<2, 3>>
  /\ runs[1].finishedAt
  /\ currentRun = 0
  /\ runs[1].currentIndex = 2
  /\ Len(runs[1].perRow) = 2
  /\ runs[1].perRow[1].row = 2
  /\ runs[1].perRow[2].row = 2
  /\ runs[1].perRow[1].status = "succeeded"
  /\ runs[1].perRow[2].status = "succeeded"
  /\ runs[1].perRow[1].datasetUrl # runs[1].perRow[2].datasetUrl
  /\ rows[3][runs[1].statusCol] = ""
  /\ \A p \in Clients : loc[p].pc = "idle"

\* the call of waitForRunToFinish of client p
Waiting(p) == loc[p].call.fn = "waitForRunToFinish"

\* C29: waitForRunToFinish ends only by returning the job with the terminal
\* status the provider reported or by throwing after a status request that
\* was refused; a status request answered with any other status is followed
\* by a sleep of max(1000, floor(requested interval)) ms and another request;
\* and once the provider reports a terminal status the call ends.
WaitEndsOnlyOnTerminal ==
  /\ [][\A p \in Clients :
         Waiting(p) =>
           LET c == loc[p].call
               d == loc'[p].call
           IN /\ (~c.returned /\ d.returned /\ ~d.ret.threw)
                 => d.ret.status \in {"SUCCEEDED", "FAILED", "ABORTED", "TIMED-OUT"}
                      /\ d.ret.status = JobStatus
              /\ (c.pc = "fetch" /\ d # c /\ ~d.returned)
                 => /\ JobStatus \notin {"SUCCEEDED", "FAILED", "ABORTED", "TIMED-OUT"}
                    /\ d.pc = "sleep"
                    /\ c.arg.given =>
                         d.delay = IF c.arg.halfMs \div 2 > 1000 THEN c.arg.halfMs \div 2 ELSE 1000
              /\ (c.pc = "sleep" /\ d # c) => d.pc = "fetch" /\ ~d.returned]_vars
  /\ \A p \in Clients :
       (Waiting(p) /\ JobStatus \in {"SUCCEEDED", "FAILED", "ABORTED", "TIMED-OUT"})
         ~> loc[p].call.returned

\* the call has slept 1999 ms, as requested with 1999.5, after a check and has
\* then returned the job ABORTED
WaitEndsOnlyOnTerminalWitness ==
  /\ Waiting(1)
  /\ loc[1].call.returned
  /\ ~loc[1].call.ret.threw
  /\ loc[1].call.ret.status = "ABORTED"
  /\ loc[1].call.delay = 1999
  /\ loc[1].call.arg.halfMs = 3999

\* the requests of the call c ask for pages of 1000 at offsets 0, 1000, 2000, ...
PagesInOrder(c) ==
  \A i \in 1..Len(c.requests) :
    c.requests[i].limit = 1000 /\ c.requests[i].offset = (i - 1) * 1000

\* C30: getDatasetItems asks for pages of 1000 at offsets 0, 1000, 2000, ...;
\* it returns after the first page shorter than 1000 (an empty one when the
\* size is a multiple of 1000), and then what it returns is the whole result
\* set, every item once and in order; it throws exactly when a page request is
\* refused, and then nothing of what it had collected is returned.
DatasetItemsComplete ==
  \A p \in Clients :
    loc[p].call.fn = "getDatasetItems" =>
      LET c == loc[p].call
          n == Len(c.dataset)
          k == Len(c.requests)
      IN /\ PagesInOrder(c)
         /\ \A i \in 1..(k - 1) : c.requests[i].ok
         /\ ~c.returned => k * 1000 <= n /\ (k > 0 => c.requests[k].ok)
         /\ (c.returned /\ ~c.ret.threw) =>
              /\ c.ret.items = c.dataset
              /\ \A i \in 1..n : c.ret.items[i] = i
              /\ k = (n \div 1000) + 1
              /\ c.requests[k].ok
              /\ n - c.requests[k].offset < 1000
         /\ (c.returned /\ c.ret.threw) =>
              ~c.requests[k].ok /\ c.ret.items = <<>>
         /\ (c.returned /\ ~c.requests[k].ok) => c.ret.threw

\* a result set of 2000 items was returned whole after three requests, the
\* last one answered with an empty page
DatasetItemsCompleteWitness ==
  /\ loc[1].call.fn = "getDatasetItems"
  /\ loc[1].call.returned
  /\ ~loc[1].call.ret.threw
  /\ Len(loc[1].call.ret.items) = 2000
  /\ Len(loc[1].call.requests) = 3
  /\ loc[1].call.requests[3].offset = 2000

\* the number of entries of the log with one of the statuses
EntriesWith(run, statuses) ==
  Cardinality({i \in 1..Len(run.perRow) : run.perRow[i].status \in statuses})

\* C31: whenever no step request is running, every run's counters agree with
\* its log: skipped is the number of skipped entries, processed the number of
\* succeeded or failed entries, and processed + skipped is the length of the
\* log and the cursor.
CountersAgreeWithLog ==
  NoStepInFlight =>
    \A i \in 1..Len(runs) :
      /\ runs[i].skipped = EntriesWith(runs[i], {"skipped"})
      /\ runs[i].processed = EntriesWith(runs[i], {"succeeded", "failed"})
      /\ runs[i].processed + runs[i].skipped = Len(runs[i].perRow)
      /\ runs[i].processed + runs[i].skipped = runs[i].currentIndex

\* client p's step request works on a run that a later start has superseded
Superseded(p) ==
  /\ loc[p].pc # "idle"
  /\ currentRun # 0
  /\ loc[p].run # currentRun

\* C32: a step of a superseded run that is still executing never changes
\* runState (the reference to the new run, the recorded job id and token, the
\* flag) nor the new run's object, and the summary it returns never carries
\* the new run's id.
SupersededStepLeavesNewRun ==
  [][\A p \in Clients :
       (Superseded(p) /\ loc'[p] # loc[p]) =>
         /\ UNCHANGED stateVars
         /\ runs'[currentRun] = runs[currentRun]
         /\ resp'[p].kind = "summary" => resp'[p].runId # runs[currentRun].runId]_vars

\* C33: a settings row whose Scraped value, as a step reads it, is Y keeps
\* all its cells in every transition, so a row that is Y when a run starts is
\* unchanged (and still Y) when the run is done, cancelled or not.
ScrapedRowsUntouched ==
  [][\A r \in DataRows :
       ToUpperCase(Trim(ScrapedRead(headers, rows, r))) = "Y" => rows'[r] = rows[r]]_vars

\* the keys of the records the leads tab holds
LeadsKeys == {leads[j].key : j \in 1..Len(leads)}

\* C34: except while an append call is awaited, every key in a run's dedup
\* set is the key of a record in the leads tab; a key whose append failed is
\* not left in the set.
DedupKeysAreInLeads ==
  (\A p \in Clients : loc[p].pc # "appending") =>
    \A i \in 1..Len(runs) : runs[i].existingUniqueIds \subseteq LeadsKeys

\* C35: whenever no step request is running, runState records no job id and
\* no token, so a cancel request then sends no abort call.
NoJobRecordedBetweenSteps ==
  NoStepInFlight => activeRunId = 0 /\ activeToken = ""

\* C36: for every settings header row, the column whose cell the step reads
\* as the row's Scraped value is the column the run writes Scraped to.
ScrapedReadIsWritten ==
  \A p \in Clients :
    (loc[p].call.fn = "getFromRowCaseInsensitive" /\ loc[p].call.returned)
      => loc[p].call.ret = loc[p].call.arg.scrapedCol

\* client p's step request ends with a summary, having given the last row of
\* its run an outcome
StepEndsLastRow(p) ==
  /\ loc[p].pc # "idle"
  /\ resp'[p].route = "step"
  /\ resp'[p].kind = "summary"
  /\ runs[loc[p].run].currentIndex = RowCount(runs[loc[p].run]) - 1
  /\ runs'[loc[p].run].currentIndex = RowCount(runs[loc[p].run])

\* C37: with no cancellation, the step call that gives the last row of the
\* range its outcome (the N-th call of a run over N rows when no call to the
\* spreadsheet fails) reports done = true, whatever that outcome is.
LastStepReportsDone ==
  [][\A p \in Clients :
       (StepEndsLastRow(p) /\ ~cancelRequested) => resp'[p].done]_vars

\* the sum of the leads counts of the succeeded entries of a log
RECURSIVE SucceededLeads(_)
SucceededLeads(perRow) ==
  IF perRow = <<>> THEN 0
  ELSE (IF Head(perRow).status = "succeeded" THEN Head(perRow).leads ELSE 0)
         + SucceededLeads(Tail(perRow))

\* the number of rows of the leads tab that run runId appended
AppendedBy(runId) == Cardinality({j \in 1..Len(leads) : leads[j].by = runId})

\* C38: whenever no step request is running, a run's totalLeads is the sum of
\* the leads counts of its succeeded entries and the number of rows it has
\* appended to the leads tab.
TotalLeadsAgrees ==
  NoStepInFlight =>
    \A i \in 1..Len(runs) :
      runs[i].runId # 0 =>
        /\ runs[i].totalLeads = SucceededLeads(runs[i].perRow)
        /\ runs[i].totalLeads = AppendedBy(runs[i].runId)

\* the last n rows of the leads tab
LastLeads(n) == SubSeq(leads, Len(leads) - n + 1, Len(leads))

\* C39: a transition that puts "Y" into a cell of a settings row is the end
\* of the success writes of a step on that row: the cell is in the run's
\* Scraped column, the rows the step kept from the result set are already the
\* last rows of the leads tab, and the entry logged for the row is succeeded.
\* A row that a run logged as failed, cancelled or skipped for a missing
\* precondition does not hold "Y" in the run's Scraped column.
AppendBeforeScrapedY ==
  /\ [][\A r \in DataRows : \A c \in 1..NCols :
         (rows'[r][c] = "Y" /\ rows[r][c] # "Y") =>
           \E p \in Clients :
             LET l == loc[p]
                 n == Len(l.leadRows)
             IN /\ l.pc = "successWrites"
                /\ l.row = r
                /\ c = Run(l).scrapedCol
                /\ n <= Len(leads)
                /\ LastLeads(n) = l.leadRows
                /\ leads' = leads
                /\ runs'[l.run].perRow
                     = Append(runs[l.run].perRow,
                              Entry(r, "succeeded", "", l.datasetUrl, n))]_vars
  /\ [](\A i \in 1..Len(runs) : \A k \in 1..Len(runs[i].perRow) :
          NotCompleted(runs[i].perRow[k])
            => rows[runs[i].perRow[k].row][runs[i].scrapedCol] # "Y")

\* a run has appended a record for row 2 and marked the row Y, and its row 3
\* failed and holds N
AppendBeforeScrapedYWitness ==
  /\ currentRun = 0
  /\ Len(runs) = 1
  /\ Len(runs[1].perRow) = 2
  /\ runs[1].perRow[1].status = "succeeded"
  /\ runs[1].perRow[1].leads = 1
  /\ runs[1].perRow[2].status = "failed"
  /\ rows[2][runs[1].scrapedCol] = "Y"
  /\ rows[3][runs[1].scrapedCol] = "N"
  /\ \E j \in 1..Len(leads) : leads[j].by = 1
====
